---- MODULE Spec2Model ----
(***************************************************************************)
(* Streaming provider adapters of obsidian-ollama: one streaming call      *)
(* (chat / generateStream) of one adapter, from the call to its terminal   *)
(* callback, with the transport (fetch + body reader) as the environment.  *)
(*                                                                         *)
(* Text on the wire is a sequence of lexical symbols <<tag, arg>>:         *)
(*   <<"nl","">>        the newline character                              *)
(*   <<"data","">>      the SSE field prefix "data: "                      *)
(*   <<"{",p>> <<"}",p>> first and second half of the JSON text of the     *)
(*                      payload p (a chunk boundary may fall between them) *)
(*   <<"text",t>>       any other text (t = "[DONE]", an "event:" line,    *)
(*                      or bytes that are not JSON)                        *)
(* Token texts and the accumulated response are TLA+ strings.              *)
(***************************************************************************)
EXTENDS Integers, Sequences, FiniteSets, TLC

\* ---------------------------------------------------------------- bounds
MaxRecords == 3
MaxLiveRecords == 1

\* ------------------------------------------------------------- adapters
Providers == {"ollama", "openai", "anthropic", "groq", "gemini"}

\* fetch(..., { signal: abortController.signal }) : the adapters that pass
\* the handle's signal to the request.  GeminiProvider creates the
\* controller but never passes its signal.
SignalWired(p) == p \in {"ollama", "openai", "anthropic", "groq"}

\* ------------------------------------------------------------ wire text
NL    == <<"nl", "">>
DATA  == <<"data", "">>
DONE  == <<"text", "[DONE]">>
EVENT == <<"text", "event: e">>
JUNK  == <<"text", "{oops">>

JsonText(p) == << <<"{", p>>, <<"}", p>> >>

\* The value JSON.parse returns for the text of payload p, as a map from
\* property path to value; a path that is absent reads as undefined.
\* Payloads: two content deltas ("Hel", "lo"), a record without content
\* ("nil") and a terminal record ("end").
Obj1(path, v) == [q \in {path} |-> v]
Obj2(path1, v1, path2, v2) == [q \in {path1, path2} |-> IF q = path1 THEN v1 ELSE v2]

OllamaJson(field, p) ==
  CASE p = "Hel" -> Obj1(field, "Hel")
    [] p = "lo"  -> Obj1(field, "lo")
    [] p = "nil" -> Obj1(field, "")
    [] p = "end" -> Obj2(field, "lo", "done", "true")

OpenAIJson(p) ==
  CASE p = "Hel" -> Obj1("choices.0.delta.content", "Hel")
    [] p = "lo"  -> Obj1("choices.0.delta.content", "lo")
    [] p = "nil" -> Obj1("choices.0.delta.role", "assistant")

AnthropicJson(p) ==
  CASE p = "Hel" -> Obj2("type", "content_block_delta", "delta.text", "Hel")
    [] p = "lo"  -> Obj2("type", "content_block_delta", "delta.text", "lo")
    [] p = "nil" -> Obj1("type", "ping")
    [] p = "end" -> Obj1("type", "message_stop")

GeminiJson(p) ==
  CASE p = "Hel" -> Obj1("candidates.0.content.parts.0.text", "Hel")
    [] p = "lo"  -> Obj1("candidates.0.content.parts.0.text", "lo")
    [] p = "nil" -> Obj1("candidates.0.finishReason", "STOP")

JsonValue(prov, isChat, p) ==
  CASE prov = "ollama"             -> OllamaJson(IF isChat THEN "message.content" ELSE "response", p)
    [] prov \in {"openai", "groq"} -> OpenAIJson(p)
    [] prov = "anthropic"          -> AnthropicJson(p)
    [] prov = "gemini"             -> GeminiJson(p)

\* json.a?.b : the value at the path, or "" (falsy) when it is absent.
Field(json, path) == IF path \in DOMAIN json THEN json[path] ELSE ""

Truthy(v) == v # ""

\* JSON.parse(text): succeeds exactly on the complete text of one payload.
JSONParseOk(text) ==
  /\ Len(text) = 2
  /\ text[1][1] = "{"
  /\ text[2][1] = "}"
  /\ text[1][2] = text[2][2]

JSONParse(prov, isChat, text) == JsonValue(prov, isChat, text[1][2])

\* ------------------------------------------------------ string helpers
IsSpace(sym) == sym[1] \in {"nl", "sp"}

\* String.prototype.trim
RECURSIVE TrimLeft(_)
TrimLeft(s) == IF s # <<>> /\ IsSpace(Head(s)) THEN TrimLeft(Tail(s)) ELSE s

RECURSIVE TrimRight(_)
TrimRight(s) ==
  IF s # <<>> /\ IsSpace(s[Len(s)]) THEN TrimRight(SubSeq(s, 1, Len(s) - 1)) ELSE s

Trim(s) == TrimRight(TrimLeft(s))

\* text.split('\n') : the segments between newlines; the last segment is
\* what follows the last newline (empty when the text ends with one).
RECURSIVE SplitFrom(_,_,_)
SplitFrom(s, cur, acc) ==
  IF s = <<>> THEN Append(acc, cur)
  ELSE IF Head(s) = NL THEN SplitFrom(Tail(s), <<>>, Append(acc, cur))
       ELSE SplitFrom(Tail(s), Append(cur, Head(s)), acc)

Split(s) == SplitFrom(s, <<>>, <<>>)

\* line.startsWith('data:')
StartsWithData(line) == line # <<>> /\ Head(line) = DATA

\* line.replace('data: ', '') : removes the first occurrence only.
RECURSIVE ReplaceData(_)
ReplaceData(line) ==
  IF line = <<>> THEN <<>>
  ELSE IF Head(line) = DATA THEN Tail(line)
       ELSE <<Head(line)>> \o ReplaceData(Tail(line))

\* line.slice(6) on a line that starts with "data: "
Slice6(line) == Tail(line)

\* ----------------------------------------------------------- callbacks
OnToken(t)    == <<"token", t>>
OnComplete(t) == <<"complete", t>>
OnError(m)    == <<"error", m>>

\* The loop state of one streaming call while it handles a chunk:
\* full = fullResponse, out = the callbacks delivered so far, returned =
\* the function has returned from inside the loop.
\* Mutant: the delta is put in front of the callbacks already delivered.
EmitFirst(acc, token) ==
  [acc EXCEPT !.full = acc.full \o token, !.out = <<OnToken(token)>> \o acc.out]

Emit(acc, token) ==
  [acc EXCEPT !.full = acc.full \o token, !.out = Append(acc.out, OnToken(token))]

\* Mutant: onComplete inside the loop without the return that follows it.
FinishNoReturn(acc) ==
  [acc EXCEPT !.out = Append(acc.out, OnComplete(acc.full))]

Finish(acc) ==
  [acc EXCEPT !.out = Append(acc.out, OnComplete(acc.full)), !.returned = TRUE]

\* ------------------------------------------------- OllamaProvider lines
OllamaLines(chunk) == SelectSeq(Split(chunk), LAMBDA line : Trim(line) # <<>>)

\* Mutant: a line that fails to parse ends the stream.
OllamaLineParseErrorEnds(isChat, line, acc) ==
  IF ~JSONParseOk(line) THEN Finish(acc)
  ELSE LET json  == JSONParse("ollama", isChat, line)
           token == IF isChat THEN Field(json, "message.content")
                              ELSE Field(json, "response")
           acc1  == IF Truthy(token) THEN Emit(acc, token) ELSE acc
       IN  IF Truthy(Field(json, "done")) THEN Finish(acc1) ELSE acc1

\* Mutant: json.done is tested before the token of the record is taken.
OllamaLineDoneFirst(isChat, line, acc) ==
  IF ~JSONParseOk(line) THEN acc
  ELSE LET json  == JSONParse("ollama", isChat, line)
           token == IF isChat THEN Field(json, "message.content")
                              ELSE Field(json, "response")
       IN  IF Truthy(Field(json, "done")) THEN Finish(acc)
           ELSE IF Truthy(token) THEN Emit(acc, token) ELSE acc

OllamaLine(isChat, line, acc) ==
  IF ~JSONParseOk(line) THEN acc
  ELSE LET json  == JSONParse("ollama", isChat, line)
           token == IF isChat THEN Field(json, "message.content")
                              ELSE Field(json, "response")
           acc1  == IF Truthy(token) THEN Emit(acc, token) ELSE acc
       IN  IF Truthy(Field(json, "done")) THEN Finish(acc1) ELSE acc1

\* ------------------------------------- OpenAIProvider / GroqProvider lines
OpenAILines(chunk) ==
  SelectSeq(Split(chunk), LAMBDA line : StartsWithData(Trim(line)))

\* Mutant: the sentinel is not recognised and is skipped like any other
\* text that is not JSON.
OpenAILineNoSentinel(prov, line, acc) ==
  LET data == Trim(ReplaceData(line))
  IN  IF ~JSONParseOk(data) THEN acc
      ELSE LET json  == JSONParse(prov, TRUE, data)
               token == Field(json, "choices.0.delta.content")
           IN  IF Truthy(token) THEN Emit(acc, token) ELSE acc

OpenAILine(prov, line, acc) ==
  LET data == Trim(ReplaceData(line))
  IN  IF data = <<DONE>> THEN Finish(acc)
      ELSE IF ~JSONParseOk(data) THEN acc
      ELSE LET json  == JSONParse(prov, TRUE, data)
               token == Field(json, "choices.0.delta.content")
           IN  IF Truthy(token) THEN Emit(acc, token) ELSE acc

\* ---------------------------------------------- AnthropicProvider lines
AnthropicLines(chunk) == SelectSeq(Split(chunk), LAMBDA line : Trim(line) # <<>>)

AnthropicLine(line, acc) ==
  IF ~StartsWithData(line) THEN acc
  ELSE LET data == Trim(ReplaceData(line))
       IN  IF data = <<>> \/ data = <<DONE>> THEN acc
           ELSE IF ~JSONParseOk(data) THEN acc
           ELSE LET json == JSONParse("anthropic", TRUE, data)
                    acc1 == IF Field(json, "type") = "content_block_delta"
                               /\ Truthy(Field(json, "delta.text"))
                            THEN Emit(acc, Field(json, "delta.text"))
                            ELSE acc
                IN  IF Field(json, "type") = "message_stop" THEN Finish(acc1) ELSE acc1

\* ------------------------------------------------- GeminiProvider lines
\* buffer += chunk; lines = buffer.split("\n"); buffer = last segment;
\* the loop runs over all segments but the last.
GeminiSegments(buffer, chunk) == Split(buffer \o chunk)

GeminiLines(buffer, chunk) ==
  LET segs == GeminiSegments(buffer, chunk) IN SubSeq(segs, 1, Len(segs) - 1)

GeminiBuffer(buffer, chunk) ==
  LET segs == GeminiSegments(buffer, chunk) IN segs[Len(segs)]

\* onToken only: the Gemini loop keeps no fullResponse.
GeminiLine(rawLine, acc) ==
  LET line == Trim(rawLine)
  IN  IF ~StartsWithData(line) THEN acc
      ELSE IF ~JSONParseOk(Slice6(line)) THEN acc
      ELSE LET json == JSONParse("gemini", TRUE, Slice6(line))
               text == Field(json, "candidates.0.content.parts.0.text")
           IN  IF Truthy(text)
               THEN [acc EXCEPT !.out = Append(acc.out, OnToken(text))]
               ELSE acc

\* ------------------------------------------------- the per-chunk loop
LinesOf(prov, buffer, chunk) ==
  CASE prov = "ollama"             -> OllamaLines(chunk)
    [] prov \in {"openai", "groq"} -> OpenAILines(chunk)
    [] prov = "anthropic"          -> AnthropicLines(chunk)
    [] prov = "gemini"             -> GeminiLines(buffer, chunk)

LineStep(prov, isChat, line, acc) ==
  CASE prov = "ollama"             -> OllamaLine(isChat, line, acc)
    [] prov \in {"openai", "groq"} -> OpenAILine(prov, line, acc)
    [] prov = "anthropic"          -> AnthropicLine(line, acc)
    [] prov = "gemini"             -> GeminiLine(line, acc)

\* Mutant: the loop goes on over the remaining lines after a return.
RECURSIVE ForLinesNoStop(_,_,_,_)
ForLinesNoStop(prov, isChat, lines, acc) ==
  IF lines = <<>> THEN acc
  ELSE ForLinesNoStop(prov, isChat, Tail(lines), LineStep(prov, isChat, Head(lines), acc))

\* for (const line of lines) { ... } : stops at the first return.
RECURSIVE ForLines(_,_,_,_)
ForLines(prov, isChat, lines, acc) ==
  IF lines = <<>> \/ acc.returned THEN acc
  ELSE ForLines(prov, isChat, Tail(lines), LineStep(prov, isChat, Head(lines), acc))

\* The body of the read loop for one chunk.
ProcessChunk(prov, isChat, full, buffer, chunk) ==
  ForLines(prov, isChat, LinesOf(prov, buffer, chunk),
           [full |-> full, out |-> <<>>, returned |-> FALSE])

NextBuffer(prov, buffer, chunk) ==
  IF prov = "gemini" THEN GeminiBuffer(buffer, chunk) ELSE <<>>

\* -------------------------------------------------- the response body
\* The records a backend may put in a streaming response: the payloads, a
\* record that is not valid JSON ("bad"), and the vendor's terminal
\* marker ("end": done:true, data: [DONE], message_stop; the Gemini
\* stream has none).
RecordKinds(prov) ==
  IF prov = "gemini" THEN {"Hel", "lo", "nil", "bad"}
                     ELSE {"Hel", "lo", "nil", "end", "bad"}

\* The wire text of one record, delimiter included.
Encode(prov, kind) ==
  CASE prov = "ollama" ->
         IF kind = "bad" THEN <<JUNK, NL>> ELSE JsonText(kind) \o <<NL>>
    [] prov \in {"openai", "groq"} ->
         IF kind = "bad" THEN <<DATA, JUNK, NL, NL>>
         ELSE IF kind = "end" THEN <<DATA, DONE, NL, NL>>
         ELSE <<DATA>> \o JsonText(kind) \o <<NL, NL>>
    [] prov = "anthropic" ->
         IF kind = "bad" THEN <<DATA, JUNK, NL, NL>>
         ELSE IF kind = "nil" THEN <<EVENT, NL, DATA>> \o JsonText(kind) \o <<NL, NL>>
         ELSE <<DATA>> \o JsonText(kind) \o <<NL, NL>>
    [] prov = "gemini" ->
         IF kind = "bad" THEN <<DATA, JUNK, NL, NL>>
                         ELSE <<DATA>> \o JsonText(kind) \o <<NL, NL>>

RECURSIVE Wire(_,_)
Wire(prov, recs) ==
  IF recs = <<>> THEN <<>> ELSE Encode(prov, Head(recs)) \o Wire(prov, Tail(recs))

Bodies(prov) == UNION {[1..n -> RecordKinds(prov)] : n \in 0..MaxRecords}

\* ---------------------------------------------------------------- state
VARIABLES
  provider,      \* the adapter the call is made on
  isChat,        \* chat (TRUE) or generateStream (FALSE)
  apiKey,        \* the adapter's credential ("" = not configured)
  records,       \* the records the backend sends when the request succeeds
  pc,            \* "idle", "fetching" (await fetch), "reading" (await reader.read), "done"
  pos,           \* number of wire symbols the reader has handed out
  aligned,       \* every chunk so far ended at the end of a line
  fullResponse,  \* let fullResponse
  buffer,        \* let buffer (GeminiProvider)
  delivered,     \* the callbacks invoked so far, in order
  aborted,       \* abortController.signal.aborted
  atCancel,      \* what had happened when abort() was first invoked in flight
  openEnded      \* the body closes with no newline after its last record

\* A one-shot operation (generate, getModels, isAvailable) of one adapter.
VARIABLES
  opProv,        \* the adapter the operation is invoked on
  opKey,         \* its apiKey ("" = not configured)
  opName,        \* "none", "generate", "getModels", "isAvailable"
  opPc,          \* "idle", "pending" (awaiting the request), "done"
  opResp,        \* what the request came back with
  opResult       \* how the returned promise settled

opVars == <<opProv, opKey, opName, opPc, opResp, opResult>>

\* The provider registry (ProviderManager).
VARIABLES
  config,            \* this.config: per provider the credential and the enabled flag
  providers,         \* this.providers: id -> adapter instance
  activeProviderId,  \* this.activeProviderId
  epoch,             \* number of times the registry has been built
  lastCall           \* the last registry operation and what held before it

regVars == <<config, providers, activeProviderId, epoch, lastCall>>

\* The request of one streaming call and the adapter fields it is built
\* from.
VARIABLES
  rqProv,        \* the adapter the call is made on
  rqFields,      \* this.apiKey, this.baseUrl, this.defaultModel
  rqEntry,       \* "none", "chat" or "generateStream"
  rqArgs,        \* the arguments of the call
  rqCaller,      \* the caller's messages array as it is after the call
  rqRequest,     \* what was passed to fetch
  rqPc           \* "idle", "inflight"

reqVars == <<rqProv, rqFields, rqEntry, rqArgs, rqCaller, rqRequest, rqPc>>

\* A second streaming call that is in flight at the same time as the first.
VARIABLES
  peer           \* its adapter, response and local variables, as a record

peerVars == <<peer>>

\* The chat view (ChatView).
VARIABLES
  isGenerating,            \* this.isGenerating
  currentAbortController,  \* this.currentAbortController: 0 (null) or the call it aborts
  session,                 \* this.session.messages: user entries and assistant entries by call
  calls,                   \* per sendMessage: the chat call and its assistantMessage
  sendButton,              \* this.sendButton.style.display
  cancelButton,            \* this.cancelButton.style.display
  saved,                   \* the last historyManager.saveSession(...): after which call, with which messages
  lastSend                 \* how the last sendMessage() ended: "none", "accepted", "rejected"

viewVars == <<isGenerating, currentAbortController, session, calls,
              sendButton, cancelButton, saved, lastSend>>

\* The chat view's provider selector and the provider its session records.
VARIABLES
  sessionProvider,   \* this.session.provider
  selectOptions,     \* the option values of this.providerSelect
  viewPc             \* "constructed" (before onOpen) or "open"

selVars == <<sessionProvider, selectOptions, viewPc>>

\* A quick command streaming into the editor (generateWithStreaming).
VARIABLES
  cmdEditor,        \* the editor line at the cursor, as UTF-16 code units tagged by origin
  cmdCursor,        \* cursorPosition.ch
  cmdPc,            \* "idle", "fetching" (await fetch), "reading" (await reader.read), "done"
  cmdFullResponse,  \* let fullResponse, as a sequence of characters
  cmdIsFirst,       \* let isFirst
  cmdInserted,      \* the response code units handed to editor.replaceRange so far
  cmdOutcome        \* "none", "success" or "error" (the catch block ran)

cmdVars == <<cmdEditor, cmdCursor, cmdPc, cmdFullResponse, cmdIsFirst,
             cmdInserted, cmdOutcome>>

streamVars == <<provider, isChat, apiKey, records, pc, pos, aligned, fullResponse,
                buffer, delivered, aborted, atCancel, openEnded>>

vars == <<provider, isChat, apiKey, records, pc, pos, aligned, fullResponse,
          buffer, delivered, aborted, atCancel, openEnded,
          opProv, opKey, opName, opPc, opResp, opResult,
          config, providers, activeProviderId, epoch, lastCall,
          rqProv, rqFields, rqEntry, rqArgs, rqCaller, rqRequest, rqPc,
          peer,
          isGenerating, currentAbortController, session, calls,
          sendButton, cancelButton, saved, lastSend,
          sessionProvider, selectOptions, viewPc,
          cmdEditor, cmdCursor, cmdPc, cmdFullResponse, cmdIsFirst,
          cmdInserted, cmdOutcome>>

\* What the actions of one part leave alone (a streaming call cannot change
\* the shape of the body it is sent).
notStreamVars == <<opVars, regVars, reqVars, peerVars, viewVars, selVars, cmdVars, openEnded>>
notOpVars == <<streamVars, regVars, reqVars, peerVars, viewVars, selVars, cmdVars>>
notRegVars == <<streamVars, opVars, reqVars, peerVars, viewVars, selVars, cmdVars>>
notReqVars == <<streamVars, opVars, regVars, peerVars, viewVars, selVars, cmdVars>>
notPeerVars == <<streamVars, opVars, regVars, reqVars, viewVars, selVars, cmdVars>>
notViewVars == <<streamVars, opVars, regVars, reqVars, peerVars, selVars, cmdVars>>
notSelVars == <<streamVars, opVars, reqVars, peerVars, viewVars, cmdVars>>
notCmdVars == <<streamVars, opVars, regVars, reqVars, peerVars, viewVars, selVars>>

\* The text without the newlines it ends with.
RECURSIVE StripNewlines(_)
StripNewlines(w) ==
  IF w # <<>> /\ w[Len(w)] = NL THEN StripNewlines(SubSeq(w, 1, Len(w) - 1)) ELSE w

wire == IF openEnded THEN StripNewlines(Wire(provider, records))
                     ELSE Wire(provider, records)

\* The default configuration: only the local provider is enabled and no
\* hosted vendor has a credential.
DefaultConfig == [id \in Providers |->
                   [apiKey |-> "", enabled |-> (id = "ollama")]]

\* No one-shot operation is in progress.
OpsIdle ==
  /\ opProv = "ollama"
  /\ opKey = ""
  /\ opName = "none"
  /\ opPc = "idle"
  /\ opResp = [kind |-> "none"]
  /\ opResult = [kind |-> "none"]

\* The registry as built from the default configuration and left alone.
RegistryIdle ==
  /\ config = DefaultConfig
  /\ providers = [id \in {"ollama"} |-> [id |-> "ollama", gen |-> 1, apiKey |-> ""]]
  /\ activeProviderId = "ollama"
  /\ epoch = 1
  /\ lastCall = [op |-> "new", id |-> "ollama", before |-> "ollama"]

\* No streaming call is in progress.
StreamIdle ==
  /\ provider = "ollama"
  /\ isChat = TRUE
  /\ apiKey = ""
  /\ records = <<>>
  /\ pc = "idle"
  /\ pos = 0
  /\ aligned = TRUE
  /\ fullResponse = ""
  /\ buffer = <<>>
  /\ delivered = <<>>
  /\ aborted = FALSE
  /\ atCancel = [set |-> FALSE, n |-> 0, pos |-> 0]
  /\ openEnded = FALSE

\* undefined, and a value that is present
Undefined == <<>>
Some(v) == <<v>>

NoRequest == [url |-> <<>>, key |-> "", model |-> "", temperature |-> Undefined,
              messages |-> <<>>, system |-> Undefined, prompt |-> <<>>]

NoArgs == [messages |-> <<>>, prompt |-> "", model |-> "",
           options |-> [temperature |-> Undefined, systemPrompt |-> Undefined]]

\* No streaming request has been built.
RequestIdle ==
  /\ rqProv = "ollama"
  /\ rqFields = [apiKey |-> "", baseUrl |-> "http://localhost:11434", defaultModel |-> "llama2"]
  /\ rqEntry = "none"
  /\ rqArgs = NoArgs
  /\ rqCaller = <<>>
  /\ rqRequest = NoRequest
  /\ rqPc = "idle"

\* The chat view as constructed: no message sent.
ViewIdle ==
  /\ isGenerating = FALSE
  /\ currentAbortController = 0
  /\ session = <<>>
  /\ calls = <<>>
  /\ sendButton = ""
  /\ cancelButton = "none"
  /\ saved = [call |-> 0, messages |-> <<>>]
  /\ lastSend = "none"

\* The selector as constructed, before the view opens.
SelectIdle ==
  /\ sessionProvider = "ollama"
  /\ selectOptions = {}
  /\ viewPc = "constructed"

\* No quick command has been run.
CommandIdle ==
  /\ cmdEditor = <<>>
  /\ cmdCursor = 0
  /\ cmdPc = "idle"
  /\ cmdFullResponse = <<>>
  /\ cmdIsFirst = TRUE
  /\ cmdInserted = <<>>
  /\ cmdOutcome = "none"

\* No second call.
PeerIdle ==
  peer = [provider |-> "ollama", isChat |-> TRUE, records |-> <<>>, pc |-> "idle",
          pos |-> 0, aligned |-> TRUE, fullResponse |-> "", buffer |-> <<>>,
          delivered |-> <<>>]

Init ==
  /\ OpsIdle
  /\ RegistryIdle
  /\ SelectIdle
  /\ CommandIdle
  /\ RequestIdle
  /\ PeerIdle
  /\ ViewIdle
  /\ provider \in Providers
  /\ isChat \in (IF provider = "ollama" THEN BOOLEAN ELSE {TRUE})
  /\ apiKey \in (IF provider = "ollama" THEN {""} ELSE {"", "key"})
  /\ records \in (IF provider # "ollama" /\ apiKey = "" THEN {<<>>} ELSE Bodies(provider))
  /\ pc = "idle"
  /\ pos = 0
  /\ aligned = TRUE
  /\ fullResponse = ""
  /\ buffer = <<>>
  /\ delivered = <<>>
  /\ aborted = FALSE
  /\ atCancel = [set |-> FALSE, n |-> 0, pos |-> 0]
  /\ openEnded = FALSE

ErrorMessage(prov, reason) ==
  IF prov = "gemini" /\ reason = "network" THEN "Gemini chat failed: network" ELSE reason

\* catch (error) { ... } of the streaming function, for a rejection that
\* is not an abort.
Catch(prov, reason) == OnError(ErrorMessage(prov, reason))

\* catch (error) { if (error.name === 'AbortError') onComplete(fullResponse) }
CatchAbort(full) == OnComplete(full)

\* The argument of the onComplete that follows the read loop.
CompleteArg(prov, full) == IF prov = "gemini" THEN "" ELSE full

\* chat(...) / generateStream(...): runs up to the first await and returns
\* the handle.  GeminiProvider reports a missing key at once.
Chat ==
  /\ pc = "idle"
  /\ IF provider = "gemini" /\ apiKey = ""
     THEN /\ delivered' = Append(delivered, OnError("Gemini API key not configured"))
          /\ pc' = "done"
     ELSE /\ delivered' = delivered
          /\ pc' = "fetching"
  /\ UNCHANGED <<provider, isChat, apiKey, records, pos, aligned, fullResponse,
                 buffer, aborted, atCancel>>
  /\ UNCHANGED notStreamVars

\* The error raised for a response that is not ok (status 500).
StatusError(prov) ==
  CASE prov = "ollama"    -> "HTTP error! status: 500"
    [] prov = "openai"    -> "OpenAI API error: 500"
    [] prov = "anthropic" -> "Anthropic API error: 500"
    [] prov = "groq"      -> "Groq API error: 500"
    [] prov = "gemini"    -> "Gemini API error: Internal Server Error"

\* The transport still works for this call: a request whose signal has
\* been aborted delivers nothing more.
TransportLive == ~(SignalWired(provider) /\ aborted)

\* await fetch(...) resolves: response.ok, a non-success status, or a
\* response without a body.
FetchResponse ==
  /\ pc = "fetching"
  /\ TransportLive
  /\ \E resp \in {"ok", "status", "nobody"} :
       IF resp = "ok"
       THEN /\ pc' = "reading"
            /\ delivered' = delivered
       ELSE /\ pc' = "done"
            /\ delivered' = Append(delivered,
                 IF resp = "status" THEN OnError(StatusError(provider))
                                    ELSE OnError("No response body"))
  /\ UNCHANGED <<provider, isChat, apiKey, records, pos, aligned, fullResponse,
                 buffer, aborted, atCancel>>
  /\ UNCHANGED notStreamVars

\* Mutant: every rejection of fetch is taken for an abort.
FetchRejectCompletes ==
  /\ pc = "fetching"
  /\ TransportLive
  /\ delivered' = Append(delivered, CatchAbort(fullResponse))
  /\ pc' = "done"
  /\ UNCHANGED <<provider, isChat, apiKey, records, pos, aligned, fullResponse,
                 buffer, aborted, atCancel>>
  /\ UNCHANGED notStreamVars

\* await fetch(...) rejects: the transport failed.
FetchReject ==
  /\ pc = "fetching"
  /\ TransportLive
  /\ delivered' = Append(delivered, Catch(provider, "network"))
  /\ pc' = "done"
  /\ UNCHANGED <<provider, isChat, apiKey, records, pos, aligned, fullResponse,
                 buffer, aborted, atCancel>>
  /\ UNCHANGED notStreamVars

AtLineEnd(w, k) == k = 0 \/ w[k] = NL

\* await reader.read() yields the next n symbols of the body, and the
\* loop body handles them.
ReadChunk ==
  /\ pc = "reading"
  /\ TransportLive
  /\ \E n \in 1..(Len(wire) - pos) :
       LET chunk == SubSeq(wire, pos + 1, pos + n)
           acc   == ProcessChunk(provider, isChat, fullResponse, buffer, chunk)
       IN  /\ pos' = pos + n
           /\ aligned' = (aligned /\ AtLineEnd(wire, pos + n))
           /\ fullResponse' = acc.full
           /\ buffer' = NextBuffer(provider, buffer, chunk)
           /\ delivered' = delivered \o acc.out
           /\ pc' = IF acc.returned THEN "done" ELSE "reading"
  /\ UNCHANGED <<provider, isChat, apiKey, records, aborted, atCancel>>
  /\ UNCHANGED notStreamVars

\* Mutant: the end of the body ends the call without a callback.
ReadDoneSilent ==
  /\ pc = "reading"
  /\ TransportLive
  /\ pos = Len(wire)
  /\ pc' = "done"
  /\ UNCHANGED <<provider, isChat, apiKey, records, pos, aligned, fullResponse,
                 buffer, delivered, aborted, atCancel>>
  /\ UNCHANGED notStreamVars

\* await reader.read() yields done: the body has ended.
ReadDone ==
  /\ pc = "reading"
  /\ TransportLive
  /\ pos = Len(wire)
  /\ delivered' = Append(delivered, OnComplete(CompleteArg(provider, fullResponse)))
  /\ pc' = "done"
  /\ UNCHANGED <<provider, isChat, apiKey, records, pos, aligned, fullResponse,
                 buffer, aborted, atCancel>>
  /\ UNCHANGED notStreamVars

\* await reader.read() rejects: the connection failed in mid-stream.
ReadError ==
  /\ pc = "reading"
  /\ TransportLive
  /\ delivered' = Append(delivered, Catch(provider, "network"))
  /\ pc' = "done"
  /\ UNCHANGED <<provider, isChat, apiKey, records, pos, aligned, fullResponse,
                 buffer, aborted, atCancel>>
  /\ UNCHANGED notStreamVars

\* Mutant: abort() runs the abort branch of the catch even when the call
\* has already ended.
CancelRejectsLate ==
  /\ pc # "idle"
  /\ aborted' = TRUE
  /\ atCancel' = IF pc # "done" /\ ~atCancel.set
                 THEN [set |-> TRUE, n |-> Len(delivered), pos |-> pos]
                 ELSE atCancel
  /\ delivered' = IF pc = "done" /\ SignalWired(provider)
                  THEN Append(delivered, OnComplete(fullResponse))
                  ELSE delivered
  /\ UNCHANGED <<provider, isChat, apiKey, records, pc, pos, aligned, fullResponse,
                 buffer>>
  /\ UNCHANGED notStreamVars

\* abortController.abort() on the handle the call returned; on a signal
\* that is already aborted it does nothing.
Cancel ==
  /\ pc # "idle"
  /\ aborted' = TRUE
  /\ atCancel' = IF pc # "done" /\ ~atCancel.set
                 THEN [set |-> TRUE, n |-> Len(delivered), pos |-> pos]
                 ELSE atCancel
  /\ UNCHANGED <<provider, isChat, apiKey, records, pc, pos, aligned, fullResponse,
                 buffer, delivered>>
  /\ UNCHANGED notStreamVars

\* The pending await (fetch or reader.read) of a request whose signal was
\* aborted rejects with an AbortError.
AbortReject ==
  /\ pc \in {"fetching", "reading"}
  /\ SignalWired(provider)
  /\ aborted
  /\ delivered' = Append(delivered, CatchAbort(fullResponse))
  /\ pc' = "done"
  /\ UNCHANGED <<provider, isChat, apiKey, records, pos, aligned, fullResponse,
                 buffer, aborted, atCancel>>
  /\ UNCHANGED notStreamVars

Next ==
  \/ Chat
  \/ FetchResponse
  \/ FetchReject
  \/ ReadChunk
  \/ ReadDone
  \/ ReadError
  \/ Cancel
  \/ AbortReject

Spec == Init /\ [][Next]_vars

\* The transport eventually answers: headers or a failure, the next chunk,
\* the end of the body, or the rejection that follows an abort; and the
\* adapter's own code runs on.  Nothing obliges the caller to cancel.
Progress ==
  \/ Chat
  \/ FetchResponse
  \/ FetchReject
  \/ ReadChunk
  \/ ReadDone
  \/ ReadError
  \/ AbortReject

Fairness == WF_vars(Progress)

\* The same calls, with responses of at most MaxLiveRecords records.
LiveInit == Init /\ Len(records) <= MaxLiveRecords

FairSpec == LiveInit /\ [][Next]_vars /\ Fairness

\* ---------------------------------------------- two calls in flight
MaxPairRecords == 1

\* Responses of token records only.
TokenBodies(n) == UNION {[1..k -> {"Hel", "lo"}] : k \in 0..n}

\* Both calls have been made, on the same adapter or on two, and both
\* responses have arrived: each call is at its first await reader.read().
PairInit ==
  /\ OpsIdle
  /\ RegistryIdle
  /\ SelectIdle
  /\ CommandIdle
  /\ RequestIdle
  /\ ViewIdle
  /\ provider \in Providers
  /\ isChat \in (IF provider = "ollama" THEN BOOLEAN ELSE {TRUE})
  /\ apiKey = (IF provider = "ollama" THEN "" ELSE "key")
  /\ records \in TokenBodies(MaxPairRecords)
  /\ pc = "reading"
  /\ pos = 0
  /\ aligned = TRUE
  /\ fullResponse = ""
  /\ buffer = <<>>
  /\ delivered = <<>>
  /\ aborted = FALSE
  /\ atCancel = [set |-> FALSE, n |-> 0, pos |-> 0]
  /\ openEnded = FALSE
  /\ \E p \in Providers, r \in TokenBodies(MaxPairRecords) :
       peer = [provider |-> p, isChat |-> TRUE, records |-> r, pc |-> "reading",
               pos |-> 0, aligned |-> TRUE, fullResponse |-> "", buffer |-> <<>>,
               delivered |-> <<>>]

\* Mutant: fullResponse and buffer are kept on the adapter, so the second
\* call reads and writes the variables of the first.
PeerReadChunkShared ==
  /\ peer.pc = "reading"
  /\ \E n \in 1..(Len(Wire(peer.provider, peer.records)) - peer.pos) :
       LET w     == Wire(peer.provider, peer.records)
           chunk == SubSeq(w, peer.pos + 1, peer.pos + n)
           acc   == ProcessChunk(peer.provider, peer.isChat, fullResponse,
                                 buffer, chunk)
       IN  /\ peer' = [peer EXCEPT
                         !.pos = peer.pos + n,
                         !.aligned = peer.aligned /\ AtLineEnd(w, peer.pos + n),
                         !.delivered = peer.delivered \o acc.out,
                         !.pc = IF acc.returned THEN "done" ELSE "reading"]
           /\ fullResponse' = acc.full
           /\ buffer' = NextBuffer(peer.provider, buffer, chunk)
  /\ UNCHANGED <<provider, isChat, apiKey, records, pc, pos, aligned, delivered,
                 aborted, atCancel, openEnded>>
  /\ UNCHANGED <<opVars, regVars, reqVars, viewVars, selVars, cmdVars>>

\* The second call's await reader.read() yields the next n symbols of its
\* body, and its loop body handles them with its own fullResponse and
\* buffer.
PeerReadChunk ==
  /\ peer.pc = "reading"
  /\ \E n \in 1..(Len(Wire(peer.provider, peer.records)) - peer.pos) :
       LET w     == Wire(peer.provider, peer.records)
           chunk == SubSeq(w, peer.pos + 1, peer.pos + n)
           acc   == ProcessChunk(peer.provider, peer.isChat, peer.fullResponse,
                                 peer.buffer, chunk)
       IN  peer' = [peer EXCEPT
                      !.pos = peer.pos + n,
                      !.aligned = peer.aligned /\ AtLineEnd(w, peer.pos + n),
                      !.fullResponse = acc.full,
                      !.buffer = NextBuffer(peer.provider, peer.buffer, chunk),
                      !.delivered = peer.delivered \o acc.out,
                      !.pc = IF acc.returned THEN "done" ELSE "reading"]
  /\ UNCHANGED notPeerVars

\* The second call's await reader.read() yields done.
PeerReadDone ==
  /\ peer.pc = "reading"
  /\ peer.pos = Len(Wire(peer.provider, peer.records))
  /\ peer' = [peer EXCEPT
                !.delivered = Append(peer.delivered,
                                OnComplete(CompleteArg(peer.provider, peer.fullResponse))),
                !.pc = "done"]
  /\ UNCHANGED notPeerVars

PairNext ==
  \/ ReadChunk
  \/ ReadDone
  \/ PeerReadChunk
  \/ PeerReadDone

PairSpec == PairInit /\ [][PairNext]_vars

\* Calls whose response body closes right after the last byte of its last
\* record, with no newline behind it.
MaxTailRecords == 2

TailInit ==
  /\ OpsIdle
  /\ RegistryIdle
  /\ SelectIdle
  /\ CommandIdle
  /\ RequestIdle
  /\ PeerIdle
  /\ ViewIdle
  /\ provider \in Providers
  /\ isChat \in (IF provider = "ollama" THEN BOOLEAN ELSE {TRUE})
  /\ apiKey = (IF provider = "ollama" THEN "" ELSE "key")
  /\ records \in UNION {[1..n -> RecordKinds(provider)] : n \in 1..MaxTailRecords}
  /\ pc = "idle"
  /\ pos = 0
  /\ aligned = TRUE
  /\ fullResponse = ""
  /\ buffer = <<>>
  /\ delivered = <<>>
  /\ aborted = FALSE
  /\ atCancel = [set |-> FALSE, n |-> 0, pos |-> 0]
  /\ openEnded = TRUE

TailSpec == TailInit /\ [][Next]_vars

\* ------------------------------------------- one-shot operations
MaxModels == 2

\* Model identifiers a listing may contain; includes('gpt') holds of the
\* first only.
ModelIds == {"gpt-4", "llama3"}
IncludesGpt(id) == id = "gpt-4"

IdLists == UNION {[1..n -> ModelIds] : n \in 0..MaxModels}

\* The body of a response: whether it parses as JSON, whether the listing
\* property (models / data) is present and what it lists, and whether the
\* generated text is present.
OneShotBodies ==
  {[json |-> FALSE, hasList |-> FALSE, ids |-> <<>>, hasText |-> FALSE]}
  \cup {[json |-> TRUE, hasList |-> FALSE, ids |-> <<>>, hasText |-> t] : t \in BOOLEAN}
  \cup {[json |-> TRUE, hasList |-> TRUE, ids |-> l, hasText |-> FALSE] : l \in IdLists}

\* What a request comes back with: a transport failure, or a response with
\* a status line (the reason phrase is empty over HTTP/2) and a body.
NoBody == [json |-> FALSE, hasList |-> FALSE, ids |-> <<>>, hasText |-> FALSE]

Responses ==
  {[kind |-> "reject", status |-> "0", statusText |-> "", body |-> NoBody]}
  \cup {[kind |-> "http", status |-> "200", statusText |-> "OK", body |-> b] :
          b \in OneShotBodies}
  \cup {[kind |-> "http", status |-> "204", statusText |-> "No Content", body |-> NoBody]}
  \cup {[kind |-> "http", status |-> "500", statusText |-> t, body |-> NoBody] :
          t \in {"Internal Server Error", ""}}

\* response.ok of fetch
ResponseOk(resp) == resp.status \in {"200", "204"}

\* requestUrl (Obsidian) rejects on a transport failure and on a status of
\* 400 or more.
RequestUrlThrows(resp) == resp.kind = "reject" \/ resp.status = "500"

RequestUrlError(resp) ==
  IF resp.kind = "reject" THEN <<"network">>
                          ELSE <<"Request failed, status ", resp.status>>

Resolved(v) == [kind |-> "resolved", value |-> v]
Rejected(parts) == [kind |-> "rejected", value |-> parts]

\* constructor defaults
DefaultModel(prov) ==
  CASE prov = "ollama"    -> "llama2"
    [] prov = "openai"    -> "gpt-3.5-turbo"
    [] prov = "anthropic" -> "claude-3-haiku-20240307"
    [] prov = "groq"      -> "llama2-70b-4096"

ApiErrorPrefix(prov) ==
  CASE prov = "openai"    -> "OpenAI API error: "
    [] prov = "anthropic" -> "Anthropic API error: "
    [] prov = "groq"      -> "Groq API error: "

\* ---- generate
OllamaGenerate(resp) ==
  IF RequestUrlThrows(resp) THEN Rejected(RequestUrlError(resp))
  ELSE IF ~resp.body.json THEN Rejected(<<"SyntaxError">>)
  ELSE Resolved(IF resp.body.hasText THEN "text" ELSE "undefined")

\* OpenAIProvider, AnthropicProvider, GroqProvider
FetchGenerate(prov, resp) ==
  IF resp.kind = "reject" THEN Rejected(<<"network">>)
  ELSE IF ~ResponseOk(resp) THEN Rejected(<<ApiErrorPrefix(prov), resp.status>>)
  ELSE IF ~resp.body.json THEN Rejected(<<"SyntaxError">>)
  ELSE Resolved(IF resp.body.hasText THEN "text" ELSE "")

GeminiGenerate(resp) ==
  IF resp.kind = "reject" THEN Rejected(<<"Gemini generation failed: ", "network">>)
  ELSE IF ~ResponseOk(resp)
       THEN Rejected(<<"Gemini generation failed: ", "Gemini API error: ", resp.statusText>>)
  ELSE IF ~resp.body.json THEN Rejected(<<"Gemini generation failed: ", "SyntaxError">>)
  ELSE Resolved(IF resp.body.hasText THEN "text" ELSE "No response")

Generate(prov, resp) ==
  CASE prov = "ollama" -> OllamaGenerate(resp)
    [] prov = "gemini" -> GeminiGenerate(resp)
    [] OTHER           -> FetchGenerate(prov, resp)

\* ---- getModels
OllamaGetModels(resp) ==
  IF RequestUrlThrows(resp) \/ ~resp.body.json THEN Resolved(<<DefaultModel("ollama")>>)
  ELSE Resolved(IF resp.body.hasList THEN resp.body.ids ELSE <<>>)

OpenAIGetModels(resp) ==
  IF resp.kind = "reject" THEN Resolved(<<DefaultModel("openai")>>)
  ELSE IF ~ResponseOk(resp) THEN Resolved(<<DefaultModel("openai")>>)
  ELSE IF ~resp.body.json THEN Resolved(<<DefaultModel("openai")>>)
  ELSE IF resp.body.hasList THEN Resolved(SelectSeq(resp.body.ids, IncludesGpt))
  ELSE Resolved(<<DefaultModel("openai")>>)

GroqFallbackModels == <<"llama2-70b-4096", "mixtral-8x7b-32768", "gemma-7b-it">>

GroqGetModels(resp) ==
  IF resp.kind = "reject" THEN Resolved(GroqFallbackModels)
  ELSE IF ~ResponseOk(resp) THEN Resolved(<<DefaultModel("groq")>>)
  ELSE IF ~resp.body.json THEN Resolved(GroqFallbackModels)
  ELSE IF resp.body.hasList THEN Resolved(resp.body.ids)
  ELSE Resolved(<<DefaultModel("groq")>>)

AnthropicModels ==
  <<"claude-3-opus-20240229", "claude-3-sonnet-20240229", "claude-3-haiku-20240307",
    "claude-2.1", "claude-2.0", "claude-instant-1.2">>

GeminiModels == <<"gemini-pro", "gemini-1.5-pro", "gemini-1.5-flash">>

GetModels(prov, resp) ==
  CASE prov = "ollama" -> OllamaGetModels(resp)
    [] prov = "openai" -> OpenAIGetModels(resp)
    [] prov = "groq"   -> GroqGetModels(resp)

\* ---- isAvailable
\* Mutant: the request of isAvailable is not wrapped in try / catch.
OllamaIsAvailableNoCatch(resp) ==
  IF RequestUrlThrows(resp) THEN Rejected(RequestUrlError(resp))
  ELSE Resolved(resp.status = "200")

OllamaIsAvailable(resp) ==
  IF RequestUrlThrows(resp) THEN Resolved(FALSE)
  ELSE Resolved(resp.status = "200")

\* !!this.apiKey && this.apiKey.length > 0  (GeminiProvider: !!this.apiKey)
HostedIsAvailable(key) == Resolved(key # "")

\* What the operation settles with before any request is made, if it makes
\* none: [kind |-> "none"] means that a request is sent.
Immediate(prov, key, name) ==
  CASE name = "isAvailable" /\ prov # "ollama" -> HostedIsAvailable(key)
    [] name = "getModels" /\ prov = "anthropic" -> Resolved(AnthropicModels)
    [] name = "getModels" /\ prov = "gemini" -> Resolved(GeminiModels)
    [] name = "getModels" /\ prov \in {"openai", "groq"} /\ key = "" -> Resolved(<<>>)
    [] name = "generate" /\ prov = "gemini" /\ key = "" ->
         Rejected(<<"Gemini API key not configured">>)
    [] OTHER -> [kind |-> "none"]

Settle(prov, name, resp) ==
  CASE name = "generate"    -> Generate(prov, resp)
    [] name = "getModels"   -> GetModels(prov, resp)
    [] name = "isAvailable" -> OllamaIsAvailable(resp)

OpNames == {"generate", "getModels", "isAvailable"}

\* An adapter with or without a credential, and no operation yet.
OpsInit ==
  /\ StreamIdle
  /\ RegistryIdle
  /\ SelectIdle
  /\ CommandIdle
  /\ RequestIdle
  /\ PeerIdle
  /\ ViewIdle
  /\ opProv \in Providers
  /\ opKey \in (IF opProv = "ollama" THEN {""} ELSE {"", "key"})
  /\ opName = "none"
  /\ opPc = "idle"
  /\ opResp = [kind |-> "none"]
  /\ opResult = [kind |-> "none"]

\* generate(...), getModels() or isAvailable() is called and runs up to
\* its first await, or to its end when it awaits nothing.
Invoke ==
  /\ opPc = "idle"
  /\ \E name \in OpNames :
       /\ opName' = name
       /\ opResult' = Immediate(opProv, opKey, name)
       /\ opPc' = IF Immediate(opProv, opKey, name).kind = "none" THEN "pending" ELSE "done"
  /\ UNCHANGED <<opProv, opKey, opResp>>
  /\ UNCHANGED notOpVars

\* The awaited request comes back and the operation runs to its end.
Respond ==
  /\ opPc = "pending"
  /\ \E resp \in Responses :
       /\ opResp' = resp
       /\ opResult' = Settle(opProv, opName, resp)
  /\ opPc' = "done"
  /\ UNCHANGED <<opProv, opKey, opName>>
  /\ UNCHANGED notOpVars

OpsNext ==
  \/ Invoke
  \/ Respond

OpsSpec == OpsInit /\ [][OpsNext]_vars

\* ------------------------------------------------ provider registry
MaxUpdates == 2

Hosted == Providers \ {"ollama"}

\* Credentials a configuration may hold; the empty string is "not set".
ApiKeys == {"", "sk-1", "sk-2"}

Configs ==
  {c \in [Providers -> [apiKey : ApiKeys, enabled : BOOLEAN]] :
     /\ c["ollama"] = DefaultConfig["ollama"]
     /\ \A h \in Hosted : c[h].enabled = (c[h].apiKey # "")}

\* Identifiers a caller may pass to setActiveProvider.
Ids == Providers \cup {"unknown"}

\* new XProvider(...): an instance made during the gen-th run of
\* initializeProviders, with its id field and the credential it was
\* constructed with.
NewProvider(cfg, id, gen) == [id |-> id, gen |-> gen, apiKey |-> cfg[id].apiKey]

\* Mutant: every hosted adapter is instantiated, whatever its credential.
InitializeProvidersAlways(map, cfg, gen) ==
  [id \in DOMAIN map \cup Providers |-> NewProvider(cfg, id, gen)]

\* providers.set('ollama', ...) always; providers.set(h, ...) for a hosted
\* vendor only if (config.h.apiKey); other entries of the map are left.
InitializeProviders(map, cfg, gen) ==
  [id \in DOMAIN map \cup {"ollama"} \cup {h \in Hosted : cfg[h].apiKey # ""} |->
     IF id = "ollama" \/ cfg[id].apiKey # ""
     THEN NewProvider(cfg, id, gen)
     ELSE map[id]]

\* providers.get(activeProviderId) || providers.get('ollama')!
GetActiveProvider ==
  IF activeProviderId \in DOMAIN providers
  THEN providers[activeProviderId]
  ELSE providers["ollama"]

GetActiveProviderId == activeProviderId

\* new ProviderManager(config)
RegistryInit ==
  /\ StreamIdle
  /\ OpsIdle
  /\ RequestIdle
  /\ PeerIdle
  /\ ViewIdle
  /\ SelectIdle
  /\ CommandIdle
  /\ config \in Configs
  /\ providers = InitializeProviders(<<>>, config, 1)
  /\ activeProviderId = "ollama"
  /\ epoch = 1
  /\ lastCall = [op |-> "new", id |-> "ollama", before |-> "ollama"]

\* Mutant: the map is not cleared before it is filled again.
UpdateConfigNoClear ==
  /\ epoch <= MaxUpdates
  /\ \E c \in Configs :
       /\ config' = c
       /\ providers' = InitializeProviders(providers, c, epoch + 1)
  /\ epoch' = epoch + 1
  /\ lastCall' = [op |-> "updateConfig", id |-> activeProviderId, before |-> activeProviderId]
  /\ UNCHANGED activeProviderId
  /\ UNCHANGED notRegVars

\* updateConfig(c): this.config = c; providers.clear(); initializeProviders()
UpdateConfig ==
  /\ epoch <= MaxUpdates
  /\ \E c \in Configs :
       /\ config' = c
       /\ providers' = InitializeProviders(<<>>, c, epoch + 1)
  /\ epoch' = epoch + 1
  /\ lastCall' = [op |-> "updateConfig", id |-> activeProviderId, before |-> activeProviderId]
  /\ UNCHANGED activeProviderId
  /\ UNCHANGED notRegVars

\* Mutant: the identifier is stored without looking it up.
SetActiveProviderNoGuard ==
  /\ \E id \in Ids :
       /\ activeProviderId' = id
       /\ lastCall' = [op |-> "setActiveProvider", id |-> id, before |-> activeProviderId]
  /\ UNCHANGED <<config, providers, epoch>>
  /\ UNCHANGED notRegVars

\* setActiveProvider(id): if (providers.has(id)) activeProviderId = id
SetActiveProvider ==
  /\ \E id \in Ids :
       /\ activeProviderId' = IF id \in DOMAIN providers THEN id ELSE activeProviderId
       /\ lastCall' = [op |-> "setActiveProvider", id |-> id, before |-> activeProviderId]
  /\ UNCHANGED <<config, providers, epoch>>
  /\ UNCHANGED notRegVars

RegistryNext ==
  \/ UpdateConfig
  \/ SetActiveProvider

RegistrySpec == RegistryInit /\ [][RegistryNext]_vars

\* ------------------------------------- the view's provider selector
\* getProviderInfo(): one entry per listed vendor, in the order written;
\* the local provider is available when enabled, a hosted vendor when
\* enabled and its credential is not empty.
GetProviderInfo(cfg) ==
  << [id |-> "ollama", name |-> "Ollama (Local)",
      available |-> cfg["ollama"].enabled],
     [id |-> "openai", name |-> "OpenAI (GPT)",
      available |-> cfg["openai"].enabled /\ cfg["openai"].apiKey # ""],
     [id |-> "anthropic", name |-> "Anthropic (Claude)",
      available |-> cfg["anthropic"].enabled /\ cfg["anthropic"].apiKey # ""],
     [id |-> "groq", name |-> "Groq (Fast)",
      available |-> cfg["groq"].enabled /\ cfg["groq"].apiKey # ""] >>

\* The identifiers getProviderInfo() reports as available.
AvailableIds(cfg) ==
  {GetProviderInfo(cfg)[k].id : k \in {j \in 1..Len(GetProviderInfo(cfg)) :
                                         GetProviderInfo(cfg)[j].available}}

\* The vendors whose settings vary here: the local provider, one vendor
\* that getProviderInfo() lists and the one it does not list.  The two
\* other listed vendors are handled by the same lines as openai and keep
\* their defaults.
SettingVendors == {"ollama", "openai", "gemini"}

\* The credentials typed into the settings tab.
SettingKeys == {"", "sk-1"}

\* The settings object: every toggle and every credential field is
\* independent of the others.
SettingsConfigs ==
  {c \in [Providers -> [apiKey : SettingKeys, enabled : BOOLEAN]] :
     /\ c["ollama"].apiKey = ""
     /\ \A id \in Providers \ SettingVendors : c[id] = DefaultConfig[id]}

\* new ChatView(leaf, plugin): the registry is built from
\* plugin.settings.providers (the object itself is kept as this.config),
\* settings.activeProvider is made active if it is registered, and the
\* first session records the active identifier.
SelectInit ==
  /\ StreamIdle
  /\ OpsIdle
  /\ RequestIdle
  /\ PeerIdle
  /\ ViewIdle
  /\ CommandIdle
  /\ config \in SettingsConfigs
  /\ providers = InitializeProviders(<<>>, config, 1)
  /\ epoch = 1
  /\ \E id \in Ids :
       /\ activeProviderId = IF id \in DOMAIN providers THEN id ELSE "ollama"
       /\ lastCall = [op |-> "setActiveProvider", id |-> id, before |-> "ollama"]
  /\ sessionProvider = activeProviderId
  /\ selectOptions = {}
  /\ viewPc = "constructed"

\* A toggle of the settings tab: settings.providers.<id>.enabled = value,
\* written into the object the registry holds as this.config; the
\* registry is not rebuilt.
ToggleEnabled ==
  /\ \E id \in SettingVendors :
       config' = [config EXCEPT ![id].enabled = ~ config[id].enabled]
  /\ UNCHANGED <<providers, activeProviderId, epoch, lastCall>>
  /\ UNCHANGED selVars
  /\ UNCHANGED notSelVars

\* A credential field of the settings tab: settings.providers.<id>.apiKey
\* = value, written in place in the same way.
SetApiKey ==
  /\ \E id \in SettingVendors \ {"ollama"} :
       \E k \in SettingKeys \ {config[id].apiKey} :
         config' = [config EXCEPT ![id].apiKey = k]
  /\ UNCHANGED <<providers, activeProviderId, epoch, lastCall>>
  /\ UNCHANGED selVars
  /\ UNCHANGED notSelVars

\* onOpen() -> loadProviders(): one option per entry of getProviderInfo()
\* that is available.
LoadProviders ==
  /\ viewPc = "constructed"
  /\ selectOptions' = AvailableIds(config)
  /\ viewPc' = "open"
  /\ UNCHANGED sessionProvider
  /\ UNCHANGED regVars
  /\ UNCHANGED notSelVars

\* The selector's change handler:
\*   providerManager.setActiveProvider(providerSelect.value);
\*   session.provider = providerSelect.value;
ProviderSelectChange ==
  /\ viewPc = "open"
  /\ \E v \in selectOptions :
       /\ activeProviderId' = IF v \in DOMAIN providers THEN v ELSE activeProviderId
       /\ lastCall' = [op |-> "setActiveProvider", id |-> v, before |-> activeProviderId]
       /\ sessionProvider' = v
  /\ UNCHANGED <<config, providers, epoch>>
  /\ UNCHANGED <<selectOptions, viewPc>>
  /\ UNCHANGED notSelVars

\* startNewChat(): this.session = createNewSession(), whose provider is
\* getActiveProviderId().
NewChatSession ==
  /\ viewPc = "open"
  /\ sessionProvider' = GetActiveProviderId
  /\ UNCHANGED <<selectOptions, viewPc>>
  /\ UNCHANGED regVars
  /\ UNCHANGED notSelVars

SelectNext ==
  \/ ToggleEnabled
  \/ SetApiKey
  \/ LoadProviders
  \/ ProviderSelectChange
  \/ NewChatSession

SelectSpec == SelectInit /\ [][SelectNext]_vars

\* ------------------------------------------- the streaming request
\* Temperatures in tenths: 0.0, 0.3, 1.0; the default written in the
\* adapters is 0.7.
Temperatures == {0, 3, 10}
DefaultTemperature == 7

SystemPrompts == {"", "Be brief"}

Msg(role, content) == [role |-> role, content |-> content]

\* Message lists a caller passes to chat.
MessageLists ==
  { <<Msg("user", "hi")>>,
    <<Msg("system", "Be kind"), Msg("user", "hi")>>,
    <<Msg("user", "hi"), Msg("assistant", "hello"), Msg("user", "more")>> }

Options ==
  [temperature : {Undefined} \cup {Some(t) : t \in Temperatures},
   systemPrompt : {Undefined} \cup {Some(p) : p \in SystemPrompts}]

CallArgs == [messages : MessageLists, prompt : {"why"}, model : {"", "m"}, options : Options]

\* a || d on strings and numbers, a ?? d
OrString(opt, d) == IF opt = Undefined \/ opt[1] = "" THEN d ELSE opt[1]
OrNumber(opt, d) == IF opt = Undefined \/ opt[1] = 0 THEN d ELSE opt[1]
Nullish(opt, d) == IF opt = Undefined THEN d ELSE opt[1]

\* if (options?.systemPrompt)
HasSystemPrompt(options) == OrString(options.systemPrompt, "") # ""

\* messages.some(m => m.role === 'system')
HasSystemMessage(messages) == \E i \in 1..Len(messages) : messages[i].role = "system"

\* ---- OllamaProvider
OllamaChatRequest(fields, args) ==
  LET ollamaMessages == [i \in 1..Len(args.messages) |->
                           Msg(args.messages[i].role, args.messages[i].content)]
  IN  [url |-> <<fields.baseUrl, "/api/chat">>,
       key |-> "",
       model |-> OrString(Some(args.model), fields.defaultModel),
       temperature |-> Some(OrNumber(args.options.temperature, DefaultTemperature)),
       messages |-> IF HasSystemPrompt(args.options)
                    THEN <<Msg("system", args.options.systemPrompt[1])>> \o ollamaMessages
                    ELSE ollamaMessages,
       system |-> Undefined,
       prompt |-> <<>>]

OllamaGenerateStreamRequest(fields, args) ==
  [url |-> <<fields.baseUrl, "/api/generate">>,
   key |-> "",
   model |-> OrString(Some(args.model), fields.defaultModel),
   temperature |-> Some(OrNumber(args.options.temperature, DefaultTemperature)),
   messages |-> <<>>,
   system |-> Undefined,
   prompt |-> IF HasSystemPrompt(args.options)
              THEN <<args.options.systemPrompt[1], "\n\n", args.prompt>>
              ELSE <<args.prompt>>]

\* ---- OpenAIProvider, GroqProvider
\* Mutant: the system message is put into the caller's own array.
OpenAIChatMessagesInPlace(messages, options) ==
  LET out == IF HasSystemPrompt(options) /\ ~HasSystemMessage(messages)
             THEN <<Msg("system", options.systemPrompt[1])>> \o messages
             ELSE messages
  IN  [sent |-> out, caller |-> out]

\* const chatMessages = [...messages]; unshift of the system prompt when
\* there is one and no message has the system role.  sent: the list put in
\* the request; caller: the caller's array afterwards.
OpenAIChatMessages(messages, options) ==
  [sent |-> IF HasSystemPrompt(options) /\ ~HasSystemMessage(messages)
            THEN <<Msg("system", options.systemPrompt[1])>> \o messages
            ELSE messages,
   caller |-> messages]

\* generateStream: the messages it hands to chat
PromptMessages(args) ==
  IF HasSystemPrompt(args.options)
  THEN <<Msg("system", args.options.systemPrompt[1]), Msg("user", args.prompt)>>
  ELSE <<Msg("user", args.prompt)>>

OpenAIStreamChatRequest(fields, messages, args) ==
  [url |-> <<fields.baseUrl, "/chat/completions">>,
   key |-> fields.apiKey,
   model |-> OrString(Some(args.model), fields.defaultModel),
   temperature |-> Some(OrNumber(args.options.temperature, DefaultTemperature)),
   messages |-> [i \in 1..Len(OpenAIChatMessages(messages, args.options).sent) |->
                   Msg(OpenAIChatMessages(messages, args.options).sent[i].role,
                       OpenAIChatMessages(messages, args.options).sent[i].content)],
   system |-> Undefined,
   prompt |-> <<>>]

\* ---- AnthropicProvider
AnthropicStreamChatRequest(fields, messages, args) ==
  LET found == SelectSeq(messages, LAMBDA m : m.role = "system")
      fromList == IF found = <<>> THEN Undefined ELSE Some(found[1].content)
  IN  [url |-> <<fields.baseUrl, "/messages">>,
       key |-> fields.apiKey,
       model |-> OrString(Some(args.model), fields.defaultModel),
       temperature |-> Undefined,
       messages |-> SelectSeq(messages, LAMBDA m : m.role # "system"),
       system |-> IF HasSystemPrompt(args.options)
                  THEN args.options.systemPrompt
                  ELSE fromList,
       prompt |-> <<>>]

\* ---- GeminiProvider
GeminiUrl == "https://generativelanguage.googleapis.com/v1beta/models/"

GeminiChatRequest(fields, args) ==
  [url |-> <<GeminiUrl, args.model, ":streamGenerateContent?alt=sse&key=", fields.apiKey>>,
   key |-> fields.apiKey,
   model |-> args.model,
   temperature |-> Some(Nullish(args.options.temperature, DefaultTemperature)),
   messages |-> [i \in 1..Len(args.messages) |->
                   Msg(IF args.messages[i].role = "assistant" THEN "model" ELSE "user",
                       args.messages[i].content)],
   system |-> Undefined,
   prompt |-> <<>>]

GeminiGenerateStreamRequest(fields, args) ==
  [url |-> <<GeminiUrl, args.model, ":streamGenerateContent?alt=sse&key=", fields.apiKey>>,
   key |-> fields.apiKey,
   model |-> args.model,
   temperature |-> Some(Nullish(args.options.temperature, DefaultTemperature)),
   messages |-> <<>>,
   system |-> Undefined,
   prompt |-> <<args.prompt>>]

\* What chat / generateStream passes to fetch before it returns.
BuildRequest(prov, entry, fields, args) ==
  LET messages == IF entry = "chat" THEN args.messages
                  ELSE IF prov = "anthropic" THEN <<Msg("user", args.prompt)>>
                  ELSE PromptMessages(args)
  IN  CASE prov = "ollama" ->
             IF entry = "chat" THEN OllamaChatRequest(fields, args)
                               ELSE OllamaGenerateStreamRequest(fields, args)
        [] prov \in {"openai", "groq"} -> OpenAIStreamChatRequest(fields, messages, args)
        [] prov = "anthropic" -> AnthropicStreamChatRequest(fields, messages, args)
        [] prov = "gemini" ->
             IF entry = "chat" THEN GeminiChatRequest(fields, args)
                               ELSE GeminiGenerateStreamRequest(fields, args)

\* The caller's messages array after chat(messages, ...) has returned.
CallerAfter(prov, args) ==
  IF prov \in {"openai", "groq"}
  THEN OpenAIChatMessages(args.messages, args.options).caller
  ELSE args.messages

\* Fields an adapter is constructed with, and the setters it has.
FieldValues(prov) ==
  [apiKey : IF prov = "ollama" THEN {""} ELSE {"sk-1"},
   baseUrl : {CASE prov = "ollama"    -> "http://localhost:11434"
                [] prov = "openai"    -> "https://api.openai.com/v1"
                [] prov = "anthropic" -> "https://api.anthropic.com/v1"
                [] prov = "groq"      -> "https://api.groq.com/openai/v1"
                [] prov = "gemini"    -> ""},
   defaultModel : {IF prov = "gemini" THEN "" ELSE DefaultModel(prov)}]

HasSetter(prov, field) ==
  CASE field = "apiKey"       -> prov # "ollama"
    [] field = "baseUrl"      -> prov \in {"ollama", "openai"}
    [] field = "defaultModel" -> prov # "gemini"

SetterValues(field) ==
  CASE field = "apiKey"       -> {"sk-1", "sk-2"}
    [] field = "baseUrl"      -> {"http://proxy"}
    [] field = "defaultModel" -> {"other-model"}

RequestInit ==
  /\ StreamIdle
  /\ OpsIdle
  /\ RegistryIdle
  /\ SelectIdle
  /\ CommandIdle
  /\ PeerIdle
  /\ ViewIdle
  /\ rqProv \in Providers
  /\ rqFields \in FieldValues(rqProv)
  /\ rqEntry = "none"
  /\ rqArgs = NoArgs
  /\ rqCaller = <<>>
  /\ rqRequest = NoRequest
  /\ rqPc = "idle"

\* chat(...) or generateStream(...) runs up to its await fetch(...) and
\* returns the handle.
StartStream ==
  /\ rqPc = "idle"
  /\ \E entry \in {"chat", "generateStream"}, args \in CallArgs :
       /\ rqEntry' = entry
       /\ rqArgs' = args
       /\ rqRequest' = BuildRequest(rqProv, entry, rqFields, args)
       /\ rqCaller' = IF entry = "chat" THEN CallerAfter(rqProv, args) ELSE args.messages
  /\ rqPc' = "inflight"
  /\ UNCHANGED <<rqProv, rqFields>>
  /\ UNCHANGED notReqVars

\* Mutant: the call in flight reads the field again after the setter.
SetFieldLive ==
  /\ \E field \in {"apiKey", "baseUrl", "defaultModel"} :
       /\ HasSetter(rqProv, field)
       /\ \E v \in SetterValues(field) : rqFields' = [rqFields EXCEPT ![field] = v]
  /\ rqRequest' = IF rqPc = "inflight"
                  THEN BuildRequest(rqProv, rqEntry, rqFields', rqArgs)
                  ELSE rqRequest
  /\ UNCHANGED <<rqProv, rqEntry, rqArgs, rqCaller, rqPc>>
  /\ UNCHANGED notReqVars

\* setApiKey(key), setBaseUrl(url), setDefaultModel(model)
SetField ==
  /\ \E field \in {"apiKey", "baseUrl", "defaultModel"} :
       /\ HasSetter(rqProv, field)
       /\ \E v \in SetterValues(field) : rqFields' = [rqFields EXCEPT ![field] = v]
  /\ UNCHANGED <<rqProv, rqEntry, rqArgs, rqCaller, rqRequest, rqPc>>
  /\ UNCHANGED notReqVars

\* The call ends (any terminal callback).
StreamEnds ==
  /\ rqPc = "inflight"
  /\ rqPc' = "idle"
  /\ rqEntry' = "none"
  /\ rqArgs' = NoArgs
  /\ rqCaller' = <<>>
  /\ rqRequest' = NoRequest
  /\ UNCHANGED <<rqProv, rqFields>>
  /\ UNCHANGED notReqVars

RequestNext ==
  \/ StartStream
  \/ SetField
  \/ StreamEnds

RequestSpec == RequestInit /\ [][RequestNext]_vars

\* ------------------------------------------------------ the chat view
MaxResends == 1
MaxViewTokens == 2

\* const assistantMessage = {role: 'assistant', content: '', isStreaming:
\* true} with its rendered element, and the provider.chat call made for it.
NewCall(prov) ==
  [prov |-> prov, open |-> TRUE, aborted |-> FALSE, fullResponse |-> "",
   streamed |-> <<>>, end |-> "none",
   content |-> "", isStreaming |-> TRUE, error |-> "", shown |-> <<"...">>]

ViewInit ==
  /\ StreamIdle
  /\ OpsIdle
  /\ RegistryIdle
  /\ SelectIdle
  /\ CommandIdle
  /\ RequestIdle
  /\ PeerIdle
  /\ isGenerating = FALSE
  /\ currentAbortController = 0
  /\ session = <<>>
  /\ calls = <<>>
  /\ sendButton = ""
  /\ cancelButton = "none"
  /\ saved = [call |-> 0, messages |-> <<>>]
  /\ lastSend = "none"

\* The adapters the view streams from: the local one, a hosted one that
\* passes the abort signal to fetch, and the one that does not.  Anthropic
\* and Groq take the same path through these callbacks as OpenAI.
ViewProviders == {"ollama", "openai", "gemini"}

\* The texts the input field may hold when the send button is clicked,
\* after trim().
InputTexts == {"", "hi"}

\* Mutant: sendMessage does not look at isGenerating.
SendMessageNoGuard ==
  /\ Len(calls) <= MaxResends
  /\ \E prov \in ViewProviders :
       /\ calls' = Append(calls, NewCall(prov))
       /\ session' = session \o << <<"user", 0>>, <<"assistant", Len(calls) + 1>> >>
  /\ sendButton' = "none"
  /\ cancelButton' = "flex"
  /\ isGenerating' = TRUE
  /\ currentAbortController' = Len(calls) + 1
  /\ lastSend' = "accepted"
  /\ UNCHANGED saved
  /\ UNCHANGED notViewVars

\* Mutant: the user message is pushed before the guard is looked at.
SendMessagePushFirst ==
  /\ \E text \in InputTexts :
       IF text = "" \/ isGenerating
       THEN /\ lastSend' = "rejected"
            /\ session' = IF text = "" THEN session ELSE Append(session, <<"user", 0>>)
            /\ UNCHANGED <<isGenerating, currentAbortController, calls,
                           sendButton, cancelButton, saved>>
       ELSE /\ Len(calls) <= MaxResends
            /\ \E prov \in ViewProviders :
                 /\ calls' = Append(calls, NewCall(prov))
                 /\ session' = session \o << <<"user", 0>>, <<"assistant", Len(calls) + 1>> >>
            /\ sendButton' = "none"
            /\ cancelButton' = "flex"
            /\ isGenerating' = TRUE
            /\ currentAbortController' = Len(calls) + 1
            /\ lastSend' = "accepted"
            /\ UNCHANGED saved
  /\ UNCHANGED notViewVars

\* sendMessage(): if (!text || this.isGenerating) return; otherwise the
\* user message and the assistant placeholder are pushed, the send button
\* is hidden and the cancel button shown, and chat is called on the active
\* provider, which returns the handle.
SendMessage ==
  /\ \E text \in InputTexts :
       IF text = "" \/ isGenerating
       THEN /\ lastSend' = "rejected"
            /\ UNCHANGED <<isGenerating, currentAbortController, session, calls,
                           sendButton, cancelButton, saved>>
       ELSE /\ Len(calls) <= MaxResends
            /\ \E prov \in ViewProviders :
                 /\ calls' = Append(calls, NewCall(prov))
                 /\ session' = session \o << <<"user", 0>>, <<"assistant", Len(calls) + 1>> >>
            /\ sendButton' = "none"
            /\ cancelButton' = "flex"
            /\ isGenerating' = TRUE
            /\ currentAbortController' = Len(calls) + 1
            /\ lastSend' = "accepted"
            /\ UNCHANGED saved
  /\ UNCHANGED notViewVars

\* Mutant: the buttons are left as they are when the generation ends.
FinishGenerationKeepsButtons(i) ==
  /\ isGenerating' = FALSE
  /\ currentAbortController' = 0
  /\ UNCHANGED <<sendButton, cancelButton>>
  /\ \E saveHistory \in BOOLEAN :
       saved' = IF saveHistory THEN [call |-> i, messages |-> session] ELSE saved

\* finishGeneration(messageEl), called by the terminal callback of call i:
\* the flag and the handle are reset, the buttons are swapped back, and
\* if (settings.saveHistory) historyManager.saveSession(this.session).
FinishGeneration(i) ==
  /\ isGenerating' = FALSE
  /\ currentAbortController' = 0
  /\ sendButton' = "flex"
  /\ cancelButton' = "none"
  /\ \E saveHistory \in BOOLEAN :
       saved' = IF saveHistory THEN [call |-> i, messages |-> session] ELSE saved

\* The adapter can still read from the transport.
CallLive(c) == c.open /\ ~(SignalWired(c.prov) /\ c.aborted)

\* The adapter of call i decodes a token and calls onToken(token).
DeliverToken(i) ==
  /\ CallLive(calls[i])
  /\ Len(calls[i].streamed) < MaxViewTokens
  /\ LET token == "Hel"
         content == calls[i].content \o token
     IN  calls' = [calls EXCEPT
                     ![i].fullResponse = calls[i].fullResponse \o token,
                     ![i].streamed = Append(calls[i].streamed, OnToken(token)),
                     ![i].content = content,
                     ![i].shown = <<content>>]
  /\ UNCHANGED <<isGenerating, currentAbortController, session,
                 sendButton, cancelButton, saved, lastSend>>
  /\ UNCHANGED notViewVars

\* The adapter of call i calls onComplete(fullResponse): the body ended,
\* or the call was aborted and the adapter passes the signal to fetch.
DeliverComplete(i) ==
  /\ calls[i].open
  /\ LET full == IF SignalWired(calls[i].prov) /\ calls[i].aborted
                 THEN CatchAbort(calls[i].fullResponse)[2]
                 ELSE CompleteArg(calls[i].prov, calls[i].fullResponse)
     IN  calls' = [calls EXCEPT
                     ![i].open = FALSE,
                     ![i].end = "complete",
                     ![i].content = full,
                     ![i].isStreaming = FALSE,
                     ![i].shown = <<full>>]
  /\ FinishGeneration(i)
  /\ UNCHANGED <<session, lastSend>>
  /\ UNCHANGED notViewVars

\* The adapter of call i calls onError(error).
DeliverError(i) ==
  /\ CallLive(calls[i])
  /\ LET message == Catch(calls[i].prov, "network")[2]
     IN  calls' = [calls EXCEPT
                     ![i].open = FALSE,
                     ![i].end = "error",
                     ![i].error = message,
                     ![i].isStreaming = FALSE,
                     ![i].shown = <<"Error: ", message>>]
  /\ FinishGeneration(i)
  /\ UNCHANGED <<session, lastSend>>
  /\ UNCHANGED notViewVars

\* cancelGeneration(), from the cancel button or from onClose()
CancelGeneration ==
  /\ currentAbortController # 0
  /\ calls' = [calls EXCEPT ![currentAbortController].aborted = TRUE]
  /\ currentAbortController' = 0
  /\ UNCHANGED <<isGenerating, session, sendButton, cancelButton, saved, lastSend>>
  /\ UNCHANGED notViewVars

\* startNewChat(), from the new-chat button or from clearChat():
\* this.session = createNewSession()
StartNewChat ==
  /\ session # <<>>
  /\ session' = <<>>
  /\ UNCHANGED <<isGenerating, currentAbortController, calls,
                 sendButton, cancelButton, saved, lastSend>>
  /\ UNCHANGED notViewVars

ViewNext ==
  \/ SendMessage
  \/ \E i \in 1..Len(calls) : DeliverToken(i)
  \/ \E i \in 1..Len(calls) : DeliverComplete(i)
  \/ \E i \in 1..Len(calls) : DeliverError(i)
  \/ CancelGeneration
  \/ StartNewChat

ViewSpec == ViewInit /\ [][ViewNext]_vars

\* ------------------------------------------- quick commands in the editor
MaxResponseLen == 3
MaxLineLen == 2

\* The loading indicator is U+270D followed by U+FE0F: two code units.
Indicator == << <<"ind", 1>>, <<"ind", 2>> >>

\* The line the cursor is on before the command runs.
Line(n) == [k \in 1..n |-> <<"doc", k>>]

\* The values of json.response in the records of the body.
ResponseTokens == { <<"H">>, <<" ", "W">>, <<" ">> }

\* String.prototype.trim() on a sequence of characters.
RECURSIVE TrimStart(_)
TrimStart(cs) == IF cs # <<>> /\ Head(cs) = " " THEN TrimStart(Tail(cs)) ELSE cs

RECURSIVE TrimEnd(_)
TrimEnd(cs) ==
  IF cs # <<>> /\ cs[Len(cs)] = " " THEN TrimEnd(SubSeq(cs, 1, Len(cs) - 1)) ELSE cs

TrimChars(cs) == TrimEnd(TrimStart(cs))

\* The code units of a piece of response text, numbered in the order they
\* are handed to the editor.
ResponseUnits(cs, before) == [k \in 1..Len(cs) |-> <<"resp", before + k, cs[k]>>]

\* A position past the end of the line is clipped to the end.
ClipCh(line, ch) == IF ch > Len(line) THEN Len(line) ELSE ch

\* editor.replaceRange(text, {ch: from}, {ch: to}) on one line
ReplaceRange(line, text, from, to) ==
  SubSeq(line, 1, ClipCh(line, from)) \o text
    \o SubSeq(line, ClipCh(line, to) + 1, Len(line))

\* editor.replaceRange(text, {ch: from}): an insertion
InsertAt(line, text, from) == ReplaceRange(line, text, from, from)

CommandInit ==
  /\ StreamIdle
  /\ OpsIdle
  /\ RegistryIdle
  /\ SelectIdle
  /\ RequestIdle
  /\ PeerIdle
  /\ ViewIdle
  /\ \E n \in 0..MaxLineLen :
       /\ cmdEditor = Line(n)
       /\ cmdCursor \in 0..n
  /\ cmdPc = "idle"
  /\ cmdFullResponse = <<>>
  /\ cmdIsFirst = TRUE
  /\ cmdInserted = <<>>
  /\ cmdOutcome = "none"

\* The command's editorCallback: the indicator is inserted at the cursor
\* and generateWithStreaming runs up to its await fetch(...).
RunCommand ==
  /\ cmdPc = "idle"
  /\ cmdEditor' = InsertAt(cmdEditor, Indicator, cmdCursor)
  /\ cmdPc' = "fetching"
  /\ UNCHANGED <<cmdCursor, cmdFullResponse, cmdIsFirst, cmdInserted, cmdOutcome>>
  /\ UNCHANGED notCmdVars

\* catch (error): new Notice(...); editor.replaceRange("", cursorPosition,
\* {ch: cursorPosition.ch + 1})
CommandCatch ==
  /\ cmdEditor' = ReplaceRange(cmdEditor, <<>>, cmdCursor, cmdCursor + 1)
  /\ cmdPc' = "done"
  /\ cmdOutcome' = "error"

\* fetch rejects, the status is not ok, or the response has no body.
FetchFails ==
  /\ cmdPc = "fetching"
  /\ CommandCatch
  /\ UNCHANGED <<cmdCursor, cmdFullResponse, cmdIsFirst, cmdInserted>>
  /\ UNCHANGED notCmdVars

\* fetch resolves with an ok response that has a body.
FetchSucceeds ==
  /\ cmdPc = "fetching"
  /\ cmdPc' = "reading"
  /\ UNCHANGED <<cmdEditor, cmdCursor, cmdFullResponse, cmdIsFirst, cmdInserted,
                 cmdOutcome>>
  /\ UNCHANGED notCmdVars

\* A line of a chunk parses and json.response is not empty: the first one
\* replaces one code unit at the cursor with fullResponse.trim(), a later
\* one is inserted at ch + fullResponse.length - json.response.length.
ReadResponse ==
  /\ cmdPc = "reading"
  /\ Len(cmdFullResponse) < MaxResponseLen
  /\ \E token \in ResponseTokens :
       LET full == cmdFullResponse \o token
           text == IF cmdIsFirst THEN TrimChars(full) ELSE token
           units == ResponseUnits(text, Len(cmdInserted))
       IN  /\ cmdFullResponse' = full
           /\ cmdEditor' = IF cmdIsFirst
                           THEN ReplaceRange(cmdEditor, units, cmdCursor, cmdCursor + 1)
                           ELSE InsertAt(cmdEditor, units,
                                         cmdCursor + Len(full) - Len(token))
           /\ cmdInserted' = cmdInserted \o units
  /\ cmdIsFirst' = FALSE
  /\ UNCHANGED <<cmdCursor, cmdPc, cmdOutcome>>
  /\ UNCHANGED notCmdVars

\* reader.read() resolves with done: the loop ends and the function
\* returns.
ReadEnds ==
  /\ cmdPc = "reading"
  /\ cmdPc' = "done"
  /\ cmdOutcome' = "success"
  /\ UNCHANGED <<cmdEditor, cmdCursor, cmdFullResponse, cmdIsFirst, cmdInserted>>
  /\ UNCHANGED notCmdVars

\* reader.read() rejects.
ReadFails ==
  /\ cmdPc = "reading"
  /\ CommandCatch
  /\ UNCHANGED <<cmdCursor, cmdFullResponse, cmdIsFirst, cmdInserted>>
  /\ UNCHANGED notCmdVars

CommandNext ==
  \/ RunCommand
  \/ FetchFails
  \/ FetchSucceeds
  \/ ReadResponse
  \/ ReadEnds
  \/ ReadFails

CommandSpec == CommandInit /\ [][CommandNext]_vars

\* ------------------------------------------------------ derived values
Tokens(log) == SelectSeq(log, LAMBDA e : e[1] = "token")
Terminals(log) == SelectSeq(log, LAMBDA e : e[1] \in {"complete", "error"})

RECURSIVE Concat(_)
Concat(ts) == IF ts = <<>> THEN "" ELSE Head(ts)[2] \o Concat(Tail(ts))

TokenTexts(log) == [i \in 1..Len(Tokens(log)) |-> Tokens(log)[i][2]]

RECURSIVE IsSubseq(_,_)
IsSubseq(a, b) ==
  IF a = <<>> THEN TRUE
  ELSE IF b = <<>> THEN FALSE
  ELSE IF Head(a) = Head(b) THEN IsSubseq(Tail(a), Tail(b))
  ELSE IsSubseq(a, Tail(b))

\* The call has ended without an abort in flight and without a failure.
NaturalDone ==
  /\ pc = "done"
  /\ ~atCancel.set
  /\ Terminals(delivered) # <<>>
  /\ Terminals(delivered)[1][1] = "complete"

WellFormed == \A i \in 1..Len(records) : records[i] # "bad"

\* The text the vendor's documentation gives for the content of a record.
ContentOf(prov, kind) ==
  CASE kind \in {"Hel", "lo"}             -> kind
    [] kind = "end" /\ prov = "ollama"    -> "lo"
    [] OTHER                              -> ""

IsTerminalRecord(prov, kind) == kind = "end" /\ prov # "gemini"

\* The deltas of a well-formed response, record by record, up to and
\* including the terminal record.
RECURSIVE ExpectedTokens(_,_)
ExpectedTokens(prov, recs) ==
  IF recs = <<>> THEN <<>>
  ELSE LET c    == ContentOf(prov, Head(recs))
           here == IF c = "" THEN <<>> ELSE <<OnToken(c)>>
       IN  IF IsTerminalRecord(prov, Head(recs)) THEN here
           ELSE here \o ExpectedTokens(prov, Tail(recs))

\* Every delta the records of the response carry, in emission order.
RECURSIVE EmittedTexts(_,_)
EmittedTexts(prov, recs) ==
  IF recs = <<>> THEN <<>>
  ELSE LET c == ContentOf(prov, Head(recs))
       IN  (IF c = "" THEN <<>> ELSE <<c>>) \o EmittedTexts(prov, Tail(recs))

TypeOK ==
  /\ provider \in Providers
  /\ pc \in {"idle", "fetching", "reading", "done"}
  /\ pos \in 0..Len(wire)
  /\ aborted \in BOOLEAN

\* ================================================================ claims

\* C1: at most one terminal callback (onComplete or onError) is delivered
\* per streaming call, whatever the transport does and whenever cancel is
\* invoked.
AtMostOneTerminal == Len(Terminals(delivered)) <= 1

\* C1 witness: a call that was cancelled in flight after a token arrived
\* and has delivered its one terminal callback.
W_CancelledAfterToken ==
  /\ pc = "done"
  /\ atCancel.set
  /\ atCancel.n >= 1
  /\ Len(Terminals(delivered)) = 1

\* C2: every call that was started eventually delivers a terminal
\* callback, given that the transport eventually answers.
EventuallyTerminal ==
  (pc # "idle") ~> (pc = "done" /\ Len(Terminals(delivered)) = 1)

\* C2 witness: a call whose body was read to its end has terminated.
W_TerminatedAtBodyEnd ==
  /\ pc = "done"
  /\ pos = Len(wire)
  /\ Len(wire) > 0
  /\ Len(Terminals(delivered)) = 1

\* C3: for a well-formed response the argument of onComplete is the
\* concatenation of the onToken deltas delivered before it.
CompleteIsConcatOfTokens ==
  WellFormed =>
    \A i \in 1..Len(delivered) :
      delivered[i][1] = "complete" =>
        delivered[i][2] = Concat(Tokens(SubSeq(delivered, 1, i - 1)))

\* C4: a cancel invoked before the terminal callback ends the call with
\* onComplete of the text accumulated when cancel was invoked, never with
\* onError.
CancelYieldsPartialComplete ==
  (pc = "done" /\ atCancel.set) =>
    Terminals(delivered) =
      <<OnComplete(Concat(Tokens(SubSeq(delivered, 1, atCancel.n))))>>

\* C5: after cancel is invoked no further chunk is read and no further
\* onToken is delivered.
CancelStopsTransfer ==
  atCancel.set =>
    /\ pos = atCancel.pos
    /\ Tokens(delivered) = Tokens(SubSeq(delivered, 1, atCancel.n))

\* C6: cancel on a handle whose call has reached its terminal callback
\* delivers no callback and changes nothing of the call, however often it
\* is repeated.
CancelAfterEndIsNoOp ==
  [][pc = "done" =>
       /\ pc' = "done"
       /\ delivered' = delivered
       /\ fullResponse' = fullResponse
       /\ buffer' = buffer
       /\ pos' = pos
       /\ atCancel' = atCancel]_vars

\* C6 witness: cancel was invoked only after the call had ended.
W_CancelledAfterEnd ==
  /\ pc = "done"
  /\ aborted
  /\ ~atCancel.set
  /\ Len(Terminals(delivered)) = 1

\* C7: however the response is cut into chunks, the onToken deltas are
\* those delivered when the whole response arrives as one chunk.
OneChunkTokens ==
  IF wire = <<>> THEN <<>>
  ELSE Tokens(ProcessChunk(provider, isChat, "", <<>>, wire).out)

ChunkingPreservesTokens ==
  NaturalDone => Tokens(delivered) = OneChunkTokens

\* C8: a record that is not valid JSON is skipped: the callbacks of a call
\* that ran to its natural end are those of the same response without the
\* malformed records (for chunks that end at line ends, and for any
\* chunks in the adapter that keeps a carry-over buffer).
MalformedRecordsSkipped ==
  (NaturalDone /\ (aligned \/ provider = "gemini")) =>
    LET toks == ExpectedTokens(provider, SelectSeq(records, LAMBDA k : k # "bad"))
    IN  /\ Tokens(delivered) = toks
        /\ Terminals(delivered)[1][1] = "complete"
        /\ provider # "gemini" => Terminals(delivered)[1][2] = Concat(toks)

\* C8 witness: a malformed record between two content records, and both
\* deltas were delivered.
W_MalformedBetweenValid ==
  /\ NaturalDone
  /\ aligned
  /\ records = <<"Hel", "bad", "lo">>
  /\ TokenTexts(delivered) = <<"Hel", "lo">>

\* C9: the onToken deltas of a call are delivered in the order in which
\* the transport emitted their records.
TokensInEmissionOrder ==
  IsSubseq(TokenTexts(delivered), EmittedTexts(provider, records))

\* C9 witness: two different deltas that arrived in different chunks have
\* been delivered.
W_TwoTokensDelivered ==
  /\ records = <<"lo", "Hel">>
  /\ TokenTexts(delivered) = <<"lo", "Hel">>
  /\ pos = Len(wire)

\* C10: Ollama chat: every record's message.content is one onToken, and
\* the done:true record ends the call with onComplete of the whole text,
\* its own content included (chunks of whole lines, as in the scenario).
OllamaChatScenario ==
  (provider = "ollama" /\ isChat /\ NaturalDone /\ aligned /\ WellFormed) =>
    LET toks == ExpectedTokens("ollama", records)
    IN  delivered = toks \o <<OnComplete(Concat(toks))>>

\* C10 witness: {content:"Hel"} then {content:"lo",done:true} gave
\* "Hel", "lo", onComplete("Hello").
W_OllamaHello ==
  /\ provider = "ollama"
  /\ isChat
  /\ records = <<"Hel", "end">>
  /\ delivered = <<OnToken("Hel"), OnToken("lo"), OnComplete("Hello")>>

\* C11: OpenAI and Groq: every data record's choices[0].delta.content is
\* one onToken, and data: [DONE] ends the call with onComplete of the text
\* accumulated up to the sentinel (chunks of whole lines, as in the
\* scenario).
OpenAISentinelScenario ==
  (provider \in {"openai", "groq"} /\ NaturalDone /\ aligned /\ WellFormed) =>
    LET toks == ExpectedTokens(provider, records)
    IN  delivered = toks \o <<OnComplete(Concat(toks))>>

\* C11 witness: a data record then [DONE] gave one onToken and onComplete
\* of the same text, and the record that followed the sentinel was not
\* delivered.
W_OpenAIDone ==
  /\ provider \in {"openai", "groq"}
  /\ records = <<"Hel", "end", "lo">>
  /\ delivered = <<OnToken("Hel"), OnComplete("Hel")>>

\* C12: once onComplete or onError has been delivered no onToken follows:
\* a terminal callback is the last callback of the call.
NoTokenAfterTerminal ==
  \A i \in 1..Len(delivered) :
    delivered[i][1] \in {"complete", "error"} => i = Len(delivered)

\* C12 witness: a content record followed the terminal marker in the same
\* chunk and the call ended at the marker.
W_RecordAfterMarker ==
  /\ pc = "done"
  /\ records = <<"end", "Hel">>
  /\ pos = Len(wire)
  /\ Len(Terminals(delivered)) = 1
  /\ Tokens(delivered) = IF provider = "ollama" THEN <<OnToken("lo")>> ELSE <<>>
  /\ provider # "gemini"

\* C13: when the stream-open request answers with a non-success status or
\* is rejected for another reason than an abort, the call delivers one
\* onError and nothing else, then and afterwards.
OpenFailureIsOneError ==
  [][/\ (pc = "fetching" /\ pc' = "done" /\ TransportLive) =>
          /\ Len(delivered') = 1
          /\ delivered'[1][1] = "error"
     /\ pc = "done" => delivered' = delivered]_vars

\* C13 witness: the request was answered with status 500 and onError was
\* the only callback.
W_OpenFailed ==
  /\ pc = "done"
  /\ provider = "openai"
  /\ delivered = <<OnError(StatusError("openai"))>>

\* C20: the call returns the handle before any callback is invoked: the
\* step that runs chat / generateStream up to its return delivers nothing.
HandleBeforeCallbacks ==
  [][pc = "idle" => delivered' = <<>>]_vars

\* C14: when the backend answers generate with a non-success response, or
\* the request fails, the call rejects with an error that carries the
\* status code or the failure reason.
RequestFailed(resp) == resp.kind = "reject" \/ (resp.kind = "http" /\ ~ResponseOk(resp))

Carries(parts, text) == \E i \in 1..Len(parts) : parts[i] = text

GenerateFailureCarriesStatus ==
  (opName = "generate" /\ opPc = "done" /\ RequestFailed(opResp)) =>
    /\ opResult.kind = "rejected"
    /\ Carries(opResult.value, IF opResp.kind = "reject" THEN "network" ELSE opResp.status)

\* C15: isAvailable() without a credential (an empty API key, an
\* unreachable local endpoint) resolves to false and does not reject.
NoCredential ==
  IF opProv = "ollama" THEN opResp.kind = "reject" ELSE opKey = ""

UnavailableIsFalse ==
  (opName = "isAvailable" /\ opPc = "done" /\ NoCredential) =>
    opResult = Resolved(FALSE)

\* C15 witness: the local endpoint was unreachable and isAvailable
\* resolved to false.
W_OllamaUnreachable ==
  /\ opName = "isAvailable"
  /\ opPc = "done"
  /\ opProv = "ollama"
  /\ opResp.kind = "reject"
  /\ opResult = Resolved(FALSE)

\* C16: getModels() resolves to a non-empty list whatever the listing
\* request does.
GetModelsNonEmpty ==
  (opName = "getModels" /\ opPc = "done") =>
    /\ opResult.kind = "resolved"
    /\ opResult.value # <<>>

\* C17: the registry holds an adapter for a hosted vendor exactly when the
\* vendor's credential in the current configuration is non-empty, and it
\* always holds the ollama adapter.
RegistryMatchesCredentials ==
  /\ "ollama" \in DOMAIN providers
  /\ \A h \in Hosted : h \in DOMAIN providers <=> config[h].apiKey # ""

\* C17 witness: after an updateConfig one hosted vendor is registered and
\* another is not.
W_SomeHostedRegistered ==
  /\ epoch > 1
  /\ config["openai"].apiKey # ""
  /\ config["groq"].apiKey = ""
  /\ DOMAIN providers = {"ollama", "openai"}

\* C18 (as stated): after setActiveProvider(id) with an id that is not in
\* the registry, the active provider is the ollama provider.
UnknownIdSelectsLocal ==
  (lastCall.op = "setActiveProvider" /\ lastCall.id \notin DOMAIN providers) =>
    GetActiveProvider = providers["ollama"]

\* C18 (amended): the active identifier is ollama until one is set;
\* setActiveProvider(id) with an id that is not in the registry leaves the
\* active identifier as it was; and the active provider is the ollama
\* provider whenever the stored identifier is not in the registry, the
\* provider registered under the stored identifier otherwise.
UnknownIdKeepsActive ==
  /\ lastCall.op = "new" => activeProviderId = "ollama"
  /\ (lastCall.op = "setActiveProvider" /\ lastCall.id \notin DOMAIN providers) =>
       activeProviderId = lastCall.before
  /\ (lastCall.op = "setActiveProvider" /\ lastCall.id \in DOMAIN providers) =>
       activeProviderId = lastCall.id
  /\ activeProviderId \notin DOMAIN providers => GetActiveProvider = providers["ollama"]
  /\ activeProviderId \in DOMAIN providers => GetActiveProvider = providers[activeProviderId]

\* C18 witness: setActiveProvider was called with an unregistered id while
\* openai was active, and openai is still the active provider.
W_UnknownIdIgnored ==
  /\ lastCall = [op |-> "setActiveProvider", id |-> "unknown", before |-> "openai"]
  /\ activeProviderId = "openai"
  /\ "openai" \in DOMAIN providers
  /\ GetActiveProvider = providers["openai"]

\* C19: after updateConfig(c) every registered adapter is an instance made
\* by that call from c; none made from an earlier configuration remains.
NoEarlierInstance ==
  \A id \in DOMAIN providers :
    /\ providers[id].gen = epoch
    /\ providers[id].apiKey = config[id].apiKey

\* C19 witness: an updateConfig dropped the credential of the vendor that
\* was active and changed nothing else; the registry holds only new
\* instances.
W_RebuiltAfterUpdate ==
  /\ epoch > 1
  /\ lastCall.op = "updateConfig"
  /\ activeProviderId = "anthropic"
  /\ DOMAIN providers = {"ollama", "openai"}
  /\ providers["openai"] = [id |-> "openai", gen |-> epoch, apiKey |-> "sk-2"]

\* C30: after any setActiveProvider and updateConfig calls,
\* getActiveProviderId() names a registered provider and is the id of the
\* adapter that getActiveProvider() returns.
ActiveIdNamesActiveProvider ==
  /\ GetActiveProviderId \in DOMAIN providers
  /\ GetActiveProviderId = GetActiveProvider.id

\* C23: the temperature in a streaming chat request is the one the caller
\* supplied, 0.0 included; the default is used only when none is supplied.
SuppliedTemperatureIsSent ==
  (rqPc = "inflight" /\ rqEntry = "chat") =>
    rqRequest.temperature =
      Some(Nullish(rqArgs.options.temperature, DefaultTemperature))

\* C24: OpenAI and Groq chat with a system prompt: the request's messages
\* are the caller's with the system prompt put first when the caller's
\* list has no system message, the caller's list as it is when it has
\* one; the caller's array is the same after the call.
SystemPromptLeadsOnce ==
  (rqPc = "inflight" /\ rqEntry = "chat" /\ rqProv \in {"openai", "groq"}
     /\ HasSystemPrompt(rqArgs.options)) =>
    /\ rqRequest.messages =
         IF HasSystemMessage(rqArgs.messages)
         THEN rqArgs.messages
         ELSE <<Msg("system", rqArgs.options.systemPrompt[1])>> \o rqArgs.messages
    /\ rqCaller = rqArgs.messages

\* C24 witness: the system prompt was put in front of a list that had no
\* system message.
W_SystemPromptInjected ==
  /\ rqPc = "inflight"
  /\ rqEntry = "chat"
  /\ rqProv = "groq"
  /\ rqArgs.messages = <<Msg("user", "hi")>>
  /\ rqRequest.messages = <<Msg("system", "Be brief"), Msg("user", "hi")>>
  /\ rqCaller = <<Msg("user", "hi")>>

\* The texts a request carries in its messages, system field and prompt.
RequestTexts(req) ==
  {req.messages[i].content : i \in 1..Len(req.messages)}
  \cup {req.system[i] : i \in 1..Len(req.system)}
  \cup {req.prompt[i] : i \in 1..Len(req.prompt)}

\* C25: a Gemini streaming request carries the text of a non-empty system
\* prompt.
GeminiCarriesSystemPrompt ==
  (rqPc = "inflight" /\ rqProv = "gemini" /\ HasSystemPrompt(rqArgs.options)) =>
    rqArgs.options.systemPrompt[1] \in RequestTexts(rqRequest)

\* C26: a setter invoked while a call is in flight does not change the
\* URL, credential or model of that call's request.
SettersLeaveRequestAlone ==
  [][(rqPc = "inflight" /\ rqPc' = "inflight") => rqRequest' = rqRequest]_vars

\* C26 witness: the credential was replaced while the call was in flight
\* and the request still carries the one read at call start.
W_SetterDuringCall ==
  /\ rqPc = "inflight"
  /\ rqProv = "gemini"
  /\ rqFields.apiKey = "sk-2"
  /\ rqRequest.key = "sk-1"
  /\ rqRequest.url[4] = "sk-1"

\* C28: Gemini: when the body closes right after a complete data record,
\* with no newline behind it, that record's token is delivered before
\* onComplete.
UnterminatedRecordEmitted ==
  (provider = "gemini" /\ openEnded /\ NaturalDone /\ WellFormed) =>
    Tokens(delivered) = ExpectedTokens(provider, records)

\* What a call delivers when its body has arrived in whole lines: the
\* tokens of its own records and then the complete callback.
OwnCallbacks(prov, recs, full) ==
  ExpectedTokens(prov, recs) \o <<OnComplete(CompleteArg(prov, full))>>

\* C27: two calls in flight together, whatever the order in which their
\* chunks arrive: each call's tokens come from its own response only, and
\* a call whose chunks were whole lines delivers exactly what it delivers
\* alone, with the complete text accumulated from its own tokens.
CallsShareNoDecoderState ==
  /\ IsSubseq(TokenTexts(delivered), EmittedTexts(provider, records))
  /\ IsSubseq(TokenTexts(peer.delivered), EmittedTexts(peer.provider, peer.records))
  /\ (pc = "done" /\ aligned) =>
       delivered = OwnCallbacks(provider, records, Concat(Tokens(delivered)))
  /\ (peer.pc = "done" /\ peer.aligned) =>
       peer.delivered = OwnCallbacks(peer.provider, peer.records,
                                     Concat(Tokens(peer.delivered)))

\* C27 witness: two calls on Gemini adapters have both ended; the chunks
\* of the second were cut inside a line, and each call delivered the token
\* of its own response.
W_TwoCallsInterleaved ==
  /\ provider = "gemini"
  /\ peer.provider = "gemini"
  /\ records = <<"Hel">>
  /\ peer.records = <<"lo">>
  /\ pc = "done"
  /\ peer.pc = "done"
  /\ ~peer.aligned
  /\ delivered = <<OnToken("Hel"), OnComplete("")>>
  /\ peer.delivered = <<OnToken("lo"), OnComplete("")>>

\* The calls that have not delivered a terminal callback.
Unresolved == {i \in 1..Len(calls) : calls[i].open}

\* The assistant messages of the conversation that are streaming.
StreamingMessages ==
  {k \in 1..Len(session) :
     session[k][1] = "assistant" /\ calls[session[k][2]].isStreaming}

\* C21: whatever the order of send, cancel, new chat, clear chat and
\* callbacks, at most one streaming call is unresolved and at most one
\* message of the conversation has isStreaming = true.
OneGenerationInFlight ==
  /\ Cardinality(Unresolved) <= 1
  /\ Cardinality(StreamingMessages) <= 1
  /\ Unresolved # {} => isGenerating

\* C21 witness: a second message was sent after the first generation was
\* cancelled and had ended, a new chat was started while the second was
\* streaming, and the second is the only call unresolved.
W_SecondGenerationAlone ==
  /\ Len(calls) = 2
  /\ calls[1].aborted
  /\ ~calls[1].open
  /\ calls[2].open
  /\ calls[2].streamed # <<>>
  /\ session = <<>>
  /\ isGenerating

\* C22: when onError comes after tokens, the message is marked with the
\* error, and its content and its displayed text still hold the tokens
\* streamed so far.
ErrorKeepsPartialContent ==
  \A i \in 1..Len(calls) :
    (calls[i].end = "error" /\ calls[i].streamed # <<>>) =>
      /\ calls[i].error # ""
      /\ calls[i].content = Concat(calls[i].streamed)
      /\ Carries(calls[i].shown, Concat(calls[i].streamed))

\* C29: after onComplete the assistant message has isStreaming = false and
\* its content is the concatenation of the tokens streamed into it.
CompletedContentIsStreamedText ==
  \A i \in 1..Len(calls) :
    calls[i].end = "complete" =>
      /\ ~calls[i].isStreaming
      /\ calls[i].content = Concat(calls[i].streamed)

\* C31: the provider recorded in the view's session is the identifier of
\* the adapter getActiveProvider() returns, after any provider selections
\* and in-place settings changes.
SessionProviderIsActive ==
  sessionProvider = GetActiveProvider.id

\* C32: the adapter getActiveProvider() returns is one that
\* getProviderInfo() reports as available, so a provider whose enabled
\* flag is false never serves a generation.
ActiveProviderIsAvailable ==
  GetActiveProvider.id \in AvailableIds(config)

\* C33: every provider that is instantiated in the registry and enabled is
\* in getProviderInfo() with available = true, gemini included.
EnabledInstancesAreListed ==
  \A id \in DOMAIN providers :
    config[id].enabled => id \in AvailableIds(config)

\* C34: when a generation finishes and history saving is enabled, the
\* conversation written to history is the one that contains the assistant
\* message just completed, whatever new-chat or clear-chat did during the
\* flight.
SavedSessionHoldsCompletedMessage ==
  saved.call # 0 =>
    \E k \in 1..Len(saved.messages) : saved.messages[k] = <<"assistant", saved.call>>

\* C35: isGenerating is true exactly while a call started by sendMessage
\* has not delivered its terminal callback, and exactly then the send
\* button is hidden and the cancel button shown; cancel, new chat and
\* close do not break this.
GeneratingIffCallPending ==
  /\ isGenerating <=> (\E i \in 1..Len(calls) : calls[i].open)
  /\ (sendButton = "none") <=> isGenerating
  /\ (cancelButton # "none") <=> isGenerating

W_CancelledCallStillPending ==
  /\ \E i \in 1..Len(calls) : calls[i].open /\ calls[i].aborted
  /\ session = <<>>
  /\ isGenerating
  /\ cancelButton = "flex"

\* C36: the conversation alternates user, assistant, ... starting with a
\* user message; an accepted send appends one user and then one assistant
\* message, and a send the guard rejects leaves the conversation as it is.
Alternates(msgs) ==
  /\ Len(msgs) % 2 = 0
  /\ \A k \in 1..Len(msgs) :
       msgs[k][1] = IF k % 2 = 1 THEN "user" ELSE "assistant"

SendsKeepAlternation ==
  /\ [](Alternates(session))
  /\ [][/\ lastSend' = "rejected" /\ lastSend # "rejected" => session' = session
        /\ (session' # session /\ session' # <<>>) =>
             /\ lastSend' = "accepted"
             /\ ~isGenerating
             /\ Len(session') = Len(session) + 2
             /\ SubSeq(session', 1, Len(session)) = session]_vars

W_RejectedWhileGenerating ==
  /\ lastSend = "rejected"
  /\ isGenerating
  /\ Len(session) = 4

\* C37: once generateWithStreaming has finished, whether it succeeded with
\* tokens, succeeded with none, failed before any token or failed after
\* some, the loading indicator is no longer in the document.
IndicatorGoneWhenDone ==
  cmdPc = "done" =>
    \A k \in 1..Len(cmdEditor) : cmdEditor[k][1] # "ind"

\* C38: when the request fails after response text has been inserted, the
\* error handling removes the loading indicator only: every character of
\* the inserted response text is still in the document.
ErrorKeepsInsertedText ==
  (cmdOutcome = "error" /\ cmdInserted # <<>>) =>
    \A n \in 1..Len(cmdInserted) :
      \E k \in 1..Len(cmdEditor) : cmdEditor[k] = cmdInserted[n]

====
